---- MODULE Spec2Model ----
(***************************************************************************)
(* KAT-RBC: the dependency-driven test orchestration engine.               *)
(*   - OperationSequencer   (src/src/core/dependency/sequencer.py)         *)
(*   - ODGBuilder           (src/src/core/dependency/odg_builder.py)       *)
(*   - ConstraintCombiner   (src/src/core/mining/combiner.py)              *)
(*   - TestExecutor         (src/src/core/execution/test_executor.py)      *)
(*   - ExperienceReinforcement (src/src/core/reinforcement/                *)
(*                              experience_reinforcement.py)               *)
(*   - DynamicInvariantMiner   (src/src/core/mining/dynamic_miner.py)      *)
(* Each component has its own specification (SpecSeq, SpecOdg, SpecComb,   *)
(* SpecExec, SpecStore, SpecStoreConc, SpecMiner); the variables of the    *)
(* other components stay at their idle values.                             *)
(***************************************************************************)
EXTENDS Integers, Sequences, FiniteSets, TLC

VARIABLES
    \* ---- OperationSequencer.generate_sequences
    odg_nodes,            \* odg.nodes: list of operation ids
    odg_edges,            \* odg.edges: list of [src, dst]
    max_sequence_length,  \* argument
    max_sequences,        \* argument
    graph,                \* local: adjacency list (dict node -> list)
    start_nodes,          \* local: list of start nodes
    start_idx,            \* position of the for loop over start_nodes
    stack,                \* call stack of _dfs_sequences frames
    sequence_lists,       \* local: collected sequences
    seq_pc,               \* "init" | "loop" | "dfs" | "done" | "idle"
    \* ---- ODGBuilder.build_graph
    operations,           \* parsed_spec.operations
    resources,            \* _heuristic_analysis: dict resource -> [op ids]
    res_idx,              \* position of the loop over resources.items()
    heuristic_edges,      \* _heuristic_analysis: edges
    built_nodes,          \* the returned graph's nodes
    built_edges,          \* the returned graph's edges
    odg_pc,               \* "group" | "connect" | "done" | "idle"
    \* ---- ConstraintCombiner.combine_constraints
    static_constraints,   \* argument: list of [id, expression]
    dynamic_invariants,   \* argument: list of [id, expression]
    unified_constraints,  \* local: list of [id, expression, originating_ids]
    comb_idx,             \* position of the running for loop
    uuid_count,           \* number of uuid4() values drawn so far
    first_result,         \* the list returned by the first call
    comb_run,             \* 1 or 2: which call on the same input is running
    comb_pc,              \* "static" | "dynamic" | "returned" | "idle"
    \* ---- TestExecutor.execute_tests
    verified_tests,       \* argument: list of [operation_sequence_id, language]
    timeout,              \* self.timeout
    parallel,             \* self.parallel
    max_retries,          \* self.max_retries
    groovy_present,       \* environment: a groovy binary is on the PATH
    test_idx,             \* position of the for loop over verified_tests
    outcomes,             \* local: the outcomes of the suite
    script_log,           \* per executed script: what happened, and where
                          \* its outcomes are in the suite
    workspaces,           \* the temporary directories that exist
    dirs_created,         \* number of temporary directories created so far
    child,                \* the child process of the script in execution
    exec_pc,              \* "dispatch" | "python_child" | "groovy_check" |
                          \* "groovy_child" | "returned" | "idle"
    \* ---- ExperienceReinforcement and its SQLite database
    store_log,            \* committed rows of test_outcomes, by rowid
    store_templates,      \* committed rows of prompt_templates, by rowid
    store_edges,          \* committed rows of odg_weights, by rowid
    db_lock,              \* the writer holding the database's write lock, or 0
    writers,              \* the threads that call into the component
    conn,                 \* per writer: position in its call, its arguments,
                          \* locals and uncommitted transaction
    history,              \* the calls that have returned, in return order
    calls_started,        \* number of calls started so far
    \* ---- DynamicInvariantMiner.discover_invariants
    execution_logs,       \* argument: list of [path, method, body]
    grouped_logs,         \* local: list of [key, logs] in insertion order
    group_idx,            \* position of the loop over grouped_logs.items()
    invariants,           \* local: the invariants found so far
    miner_pc              \* "start" | "groups" | "returned" | "idle"

seq_vars == <<odg_nodes, odg_edges, max_sequence_length, max_sequences, graph,
              start_nodes, start_idx, stack, sequence_lists, seq_pc>>

odg_vars == <<operations, resources, res_idx, heuristic_edges, built_nodes,
              built_edges, odg_pc>>

comb_vars == <<static_constraints, dynamic_invariants, unified_constraints,
               comb_idx, uuid_count, first_result, comb_run, comb_pc>>

exec_vars == <<verified_tests, timeout, parallel, max_retries, groovy_present,
               test_idx, outcomes, script_log, workspaces, dirs_created,
               child, exec_pc>>

store_vars == <<store_log, store_templates, store_edges, db_lock, writers,
                conn, history, calls_started>>

miner_vars == <<execution_logs, grouped_logs, group_idx, invariants, miner_pc>>

vars == <<seq_vars, odg_vars, comb_vars, exec_vars, store_vars, miner_vars>>

(***************************************************************************)
(* Generic helpers                                                         *)
(***************************************************************************)
Range(s) == {s[i] : i \in 1..Len(s)}

InSeq(x, s) == \E i \in 1..Len(s) : s[i] = x

Take(s, n) == IF n >= Len(s) THEN s ELSE SubSeq(s, 1, n)

SeqsUpTo(S, n) == UNION {[1..k -> S] : k \in 0..n}

NoRepeat(s) == \A i, j \in 1..Len(s) : i # j => s[i] # s[j]

(***************************************************************************)
(* Bounds of the sequencer model                                           *)
(***************************************************************************)
MaxEdges == 3
MaxLen == 3
MaxSeqs == 2

\* operation ids; an id that is not in odg.nodes is a foreign endpoint
OpIds == {"a", "b", "c"}

NodeLists == {<<>>, <<"a">>, <<"a", "b">>, <<"a", "b", "c">>}

EdgeSet == [src : OpIds, dst : OpIds]

(***************************************************************************)
(* OperationSequencer                                                      *)
(***************************************************************************)
\* graph[src].append(dst) for one edge, guarded as in the source
MutAddEdgeReversed(g, e) ==
    IF e.dst \in DOMAIN g /\ ~InSeq(e.src, g[e.dst])
    THEN [g EXCEPT ![e.dst] = Append(@, e.src)]
    ELSE g

AddEdgeToGraph(g, e) ==
    IF e.src \in DOMAIN g /\ ~InSeq(e.dst, g[e.src])
    THEN [g EXCEPT ![e.src] = Append(@, e.dst)]
    ELSE g

RECURSIVE FoldEdges(_, _, _)
FoldEdges(g, edges, i) ==
    IF i > Len(edges) THEN g
    ELSE FoldEdges(AddEdgeToGraph(g, edges[i]), edges, i + 1)

\* _build_adjacency_list
BuildAdjacencyList(nodes, edges) ==
    FoldEdges([n \in Range(nodes) |-> <<>>], edges, 1)

\* _find_start_nodes
MutFindStartNodesAll(nodes, edges) == nodes

FindStartNodes(nodes, edges) ==
    LET dest_nodes == {edges[i].dst : i \in 1..Len(edges)}
    IN  SelectSeq(nodes, LAMBDA n : n \notin dest_nodes)

\* graph.get(start, [])
Neighbors(g, n) == IF n \in DOMAIN g THEN g[n] ELSE <<>>

\* the guard of the recursive call
MutUnvisitedAlways(neighbor, visited) == TRUE

Unvisited(neighbor, visited) == neighbor \notin visited

\* the guard "continue traversal if path not too long"
MutMayExtendOffByOne(path, max_length) == Len(path) <= max_length

MayExtend(path, max_length) == Len(path) < max_length

\* entry of _dfs_sequences(graph, start, max_length, visited, current_path):
\* the frame after lines 104-117
DfsFrame(start, visited, current_path) ==
    LET path == Append(current_path, start)
    IN  [ node      |-> start,
          visited   |-> visited \cup {start},
          path      |-> path,
          sequences |-> IF Len(path) >= 2 THEN <<path>> ELSE <<>>,
          i         |-> 1 ]

Top == stack[Len(stack)]

\* the for loop of the top frame has a next neighbor to look at
TopHasNext ==
    /\ MayExtend(Top.path, max_sequence_length)
    /\ Top.i <= Len(Neighbors(graph, Top.node))

\* the truncation at the end of one iteration over start_nodes
MutLimitNoTruncate(seqs, limit) == seqs

MutLimitKeepsLast(seqs, limit) ==
    IF limit >= Len(seqs) THEN seqs
    ELSE SubSeq(seqs, Len(seqs) - limit + 1, Len(seqs))

LimitSequences(seqs, limit) == Take(seqs, limit)

SeqInit ==
    /\ odg_nodes \in NodeLists
    /\ odg_edges \in SeqsUpTo(EdgeSet, MaxEdges)
    /\ max_sequence_length \in 1..MaxLen
    /\ max_sequences \in 0..MaxSeqs
    /\ graph = <<>>
    /\ start_nodes = <<>>
    /\ start_idx = 1
    /\ stack = <<>>
    /\ sequence_lists = <<>>
    /\ seq_pc = "init"

\* generate_sequences, lines 39-49
SeqBegin ==
    /\ seq_pc = "init"
    /\ graph' = BuildAdjacencyList(odg_nodes, odg_edges)
    /\ start_nodes' = (LET s == FindStartNodes(odg_nodes, odg_edges)
                       IN  IF s = <<>> THEN odg_nodes ELSE s)
    /\ seq_pc' = "loop"
    /\ UNCHANGED <<odg_nodes, odg_edges, max_sequence_length, max_sequences,
                   start_idx, stack, sequence_lists>>

\* generate_sequences, line 53: the call of _dfs_sequences for one start node
SeqCallDfs ==
    /\ seq_pc = "loop"
    /\ start_idx <= Len(start_nodes)
    /\ stack' = <<DfsFrame(start_nodes[start_idx], {}, <<>>)>>
    /\ seq_pc' = "dfs"
    /\ UNCHANGED <<odg_nodes, odg_edges, max_sequence_length, max_sequences,
                   graph, start_nodes, start_idx, sequence_lists>>

\* _dfs_sequences, lines 121-125: one iteration that recurses
DfsRecurse ==
    /\ seq_pc = "dfs"
    /\ TopHasNext
    /\ LET neighbor == Neighbors(graph, Top.node)[Top.i]
       IN  /\ Unvisited(neighbor, Top.visited)
           /\ stack' = Append([stack EXCEPT ![Len(stack)].i = @ + 1],
                              DfsFrame(neighbor, Top.visited, Top.path))
    /\ UNCHANGED <<odg_nodes, odg_edges, max_sequence_length, max_sequences,
                   graph, start_nodes, start_idx, sequence_lists, seq_pc>>

\* _dfs_sequences, lines 121-122: one iteration over an already visited neighbor
DfsSkip ==
    /\ seq_pc = "dfs"
    /\ TopHasNext
    /\ ~Unvisited(Neighbors(graph, Top.node)[Top.i], Top.visited)
    /\ stack' = [stack EXCEPT ![Len(stack)].i = @ + 1]
    /\ UNCHANGED <<odg_nodes, odg_edges, max_sequence_length, max_sequences,
                   graph, start_nodes, start_idx, sequence_lists, seq_pc>>

\* _dfs_sequences, lines 126-128: return of a recursive call into its caller
DfsReturnInner ==
    /\ seq_pc = "dfs"
    /\ ~TopHasNext
    /\ Len(stack) > 1
    /\ stack' = [SubSeq(stack, 1, Len(stack) - 1)
                    EXCEPT ![Len(stack) - 1].sequences = @ \o Top.sequences]
    /\ UNCHANGED <<odg_nodes, odg_edges, max_sequence_length, max_sequences,
                   graph, start_nodes, start_idx, sequence_lists, seq_pc>>

\* _dfs_sequences returns to generate_sequences, lines 53-59
DfsReturnOuter ==
    /\ seq_pc = "dfs"
    /\ ~TopHasNext
    /\ Len(stack) = 1
    /\ stack' = <<>>
    /\ LET extended == sequence_lists \o Top.sequences
       IN  IF Len(extended) >= max_sequences
           THEN /\ sequence_lists' = LimitSequences(extended, max_sequences)
                /\ seq_pc' = "done"
                /\ UNCHANGED start_idx
           ELSE /\ sequence_lists' = extended
                /\ seq_pc' = "loop"
                /\ start_idx' = start_idx + 1
    /\ UNCHANGED <<odg_nodes, odg_edges, max_sequence_length, max_sequences,
                   graph, start_nodes>>

\* generate_sequences: the for loop is exhausted, lines 61-68
SeqFinish ==
    /\ seq_pc = "loop"
    /\ start_idx > Len(start_nodes)
    /\ seq_pc' = "done"
    /\ UNCHANGED <<odg_nodes, odg_edges, max_sequence_length, max_sequences,
                   graph, start_nodes, start_idx, stack, sequence_lists>>

SeqNext ==
    \/ SeqBegin
    \/ SeqCallDfs
    \/ DfsRecurse
    \/ DfsSkip
    \/ DfsReturnInner
    \/ DfsReturnOuter
    \/ SeqFinish


(***************************************************************************)
(* ODGBuilder                                                              *)
(***************************************************************************)
MaxOps == 3

\* HTTPMethod values used by the heuristic, and one it ignores
Methods == {"GET", "POST", "PUT", "PATCH", "DELETE"}

\* path templates, as character strings:
\*   "/fs/x"  "/f"  "/b"  "/s"  "/"
Paths == { <<"/", "f", "s", "/", "x">>,
           <<"/", "f">>,
           <<"/", "b">>,
           <<"/", "s">>,
           <<"/">> }

\* operation ids are unique: the id of the k-th operation
OpIdOf(k) == <<"a", "b", "c", "d">>[k]

\* str.split("/")
RECURSIVE SplitFrom(_, _, _)
SplitFrom(s, i, cur) ==
    IF i > Len(s) THEN <<cur>>
    ELSE IF s[i] = "/" THEN <<cur>> \o SplitFrom(s, i + 1, <<>>)
    ELSE SplitFrom(s, i + 1, Append(cur, s[i]))

SplitSlash(s) == SplitFrom(s, 1, <<>>)

\* str.rstrip("s")
RECURSIVE RStripS(_)
RStripS(s) ==
    IF s # <<>> /\ s[Len(s)] = "s" THEN RStripS(SubSeq(s, 1, Len(s) - 1))
    ELSE s

\* lines 81-84: the resource of a path, <<>> when the operation is skipped
MutResourceOfRaw(path) ==
    LET path_parts == SplitSlash(path)
    IN  IF Len(path_parts) > 1 THEN path_parts[2] ELSE <<>>

ResourceOf(path) ==
    LET path_parts == SplitSlash(path)
    IN  IF Len(path_parts) > 1 THEN RStripS(path_parts[2]) ELSE <<>>

\* lines 85-87: resources[resource].append(op_id), keys in insertion order
AddToResources(res, resource, op_id) ==
    IF \E k \in 1..Len(res) : res[k].resource = resource
    THEN [k \in 1..Len(res) |->
            IF res[k].resource = resource
            THEN [res[k] EXCEPT !.ops = Append(@, op_id)]
            ELSE res[k]]
    ELSE Append(res, [resource |-> resource, ops |-> <<op_id>>])

RECURSIVE GroupFrom(_, _, _)
GroupFrom(ops, k, res) ==
    IF k > Len(ops) THEN res
    ELSE LET resource == ResourceOf(ops[k].path)
         IN  GroupFrom(ops, k + 1,
                       IF resource # <<>>
                       THEN AddToResources(res, resource, ops[k].operation_id)
                       ELSE res)

MethodOf(op_id) ==
    LET k == CHOOSE k \in 1..Len(operations) : operations[k].operation_id = op_id
    IN  operations[k].method

\* lines 92-94
MutWriteMethodsNoPatch == {"POST", "PUT"}

WriteMethods == {"POST", "PUT", "PATCH"}

\* the edges src -> dst for every src of srcs (outer loop), every dst of dsts
RECURSIVE PairEdges(_, _, _, _)
PairEdges(srcs, dsts, i, j) ==
    IF i > Len(srcs) THEN <<>>
    ELSE IF j > Len(dsts) THEN PairEdges(srcs, dsts, i + 1, 1)
    ELSE <<[src |-> srcs[i], dst |-> dsts[j]]>> \o PairEdges(srcs, dsts, i, j + 1)

\* lines 91-117: the edges of one resource group
EdgesOfGroup(ops) ==
    LET get_ops   == SelectSeq(ops, LAMBDA o : MethodOf(o) = "GET")
        write_ops == SelectSeq(ops, LAMBDA o : MethodOf(o) \in WriteMethods)
        post_ops  == SelectSeq(ops, LAMBDA o : MethodOf(o) = "POST")
    IN  PairEdges(get_ops, write_ops, 1, 1) \o PairEdges(post_ops, get_ops, 1, 1)

\* the operation list with the k-th operation's id filled in
WithIds(f) ==
    [k \in 1..Len(f) |-> [operation_id |-> OpIdOf(k),
                          path |-> f[k].path,
                          method |-> f[k].method]]

OdgInit ==
    /\ \E f \in SeqsUpTo([path : Paths, method : Methods], MaxOps) :
           operations = WithIds(f)
    /\ resources = <<>>
    /\ res_idx = 1
    /\ heuristic_edges = <<>>
    /\ built_nodes = <<>>
    /\ built_edges = <<>>
    /\ odg_pc = "group"

OdgIdle ==
    /\ operations = <<>>
    /\ resources = <<>>
    /\ res_idx = 1
    /\ heuristic_edges = <<>>
    /\ built_nodes = <<>>
    /\ built_edges = <<>>
    /\ odg_pc = "idle"

\* _heuristic_analysis, lines 74-87
OdgGroupResources ==
    /\ odg_pc = "group"
    /\ resources' = GroupFrom(operations, 1, <<>>)
    /\ odg_pc' = "connect"
    /\ UNCHANGED <<operations, res_idx, heuristic_edges, built_nodes, built_edges>>

\* _heuristic_analysis, lines 90-117: one iteration over resources.items()
OdgConnectResource ==
    /\ odg_pc = "connect"
    /\ res_idx <= Len(resources)
    /\ heuristic_edges' = heuristic_edges \o EdgesOfGroup(resources[res_idx].ops)
    /\ res_idx' = res_idx + 1
    /\ UNCHANGED <<operations, resources, built_nodes, built_edges, odg_pc>>

\* _heuristic_analysis returns; build_graph, lines 49-70 (no llm_client, and
\* _llm_analysis returns no edges)
OdgBuildGraph ==
    /\ odg_pc = "connect"
    /\ res_idx > Len(resources)
    /\ built_nodes' = [k \in 1..Len(operations) |-> operations[k].operation_id]
    /\ built_edges' = heuristic_edges
    /\ odg_pc' = "done"
    /\ UNCHANGED <<operations, resources, res_idx, heuristic_edges>>

OdgNext ==
    \/ OdgGroupResources
    \/ OdgConnectResource
    \/ OdgBuildGraph

(***************************************************************************)
(* ConstraintCombiner                                                      *)
(***************************************************************************)
MaxStatic == 1
MaxDynamic == 2

\* An expression string is modelled by its atoms "response.<p> <o> <n>",
\* joined by "&&" when there are several.
Atom(p, o, n) == [p |-> p, o |-> o, n |-> n]

IneqOps == {">", ">=", "<", "<="}

\* the expression strings of the inputs: single bounds on response.amount
\* in both directions, a bound on another property, an equality, a range
Expressions ==
    { <<Atom("amount", ">", 50)>>,  <<Atom("amount", ">=", 50)>>,
      <<Atom("amount", ">", 100)>>,
      <<Atom("amount", "<", 50)>>,  <<Atom("amount", "<=", 50)>>,
      <<Atom("amount", "<", 100)>>,
      <<Atom("count", ">", 50)>>,
      <<Atom("amount", "==", 50)>>,
      <<Atom("amount", ">", 50), Atom("amount", "<", 100)>> }

StaticIds == <<"s1", "s2">>

DynamicIds == <<"d1", "d2", "d3">>

\* re.findall(r"response\.([a-zA-Z0-9_\.]+)", expr)
ResponseProps(expr) == [k \in 1..Len(expr) |-> expr[k].p]

\* _constraints_overlap
ConstraintsOverlap(expr1, expr2) ==
    \E i \in 1..Len(expr1), j \in 1..Len(expr2) :
        ResponseProps(expr1)[i] = ResponseProps(expr2)[j]

\* re.search(r"([<>]=?)\s*(\d+)", expr): the position of the first match, 0
\* when there is none ("==" is no match)
FirstInequality(expr) ==
    IF \E k \in 1..Len(expr) : expr[k].o \in IneqOps
    THEN CHOOSE k \in 1..Len(expr) :
            /\ expr[k].o \in IneqOps
            /\ \A m \in 1..(k - 1) : expr[m].o \notin IneqOps
    ELSE 0

\* ">" in op, "<" in op
IsGreaterOp(o) == o \in {">", ">="}

IsLessOp(o) == o \in {"<", "<="}

\* _select_stricter_constraint
MutSelectStricterAlwaysSecond(expr1, expr2) == expr2

SelectStricterConstraint(expr1, expr2) ==
    LET i1 == FirstInequality(expr1)
        i2 == FirstInequality(expr2)
    IN  IF i1 = 0 \/ i2 = 0 THEN expr1
        ELSE LET op1 == expr1[i1].o
                 val1 == expr1[i1].n
                 op2 == expr2[i2].o
                 val2 == expr2[i2].n
             IN  IF IsGreaterOp(op1) /\ IsGreaterOp(op2)
                 THEN (IF val1 > val2 THEN expr1 ELSE expr2)
                 ELSE IF IsLessOp(op1) /\ IsLessOp(op2)
                 THEN (IF val1 < val2 THEN expr1 ELSE expr2)
                 ELSE expr1

\* _merge_constraints
MutMergeAlwaysNew(unified, invariant) ==
    [ id              |-> unified.id,
      expression      |-> SelectStricterConstraint(unified.expression,
                                                   invariant.expression),
      originating_ids |-> Append(unified.originating_ids, invariant.id) ]

MergeConstraints(unified, invariant) ==
    LET stricter_expr == SelectStricterConstraint(unified.expression,
                                                  invariant.expression)
    IN  IF stricter_expr = unified.expression
        THEN unified
        ELSE [ id              |-> unified.id,
               expression      |-> stricter_expr,
               originating_ids |-> Append(unified.originating_ids, invariant.id) ]

\* _find_matching_constraints
FindMatchingConstraints(invariant, unified) ==
    SelectSeq(unified,
              LAMBDA c : ConstraintsOverlap(c.expression, invariant.expression))

\* list.index
IndexOf(list, x) ==
    CHOOSE k \in 1..Len(list) :
        list[k] = x /\ \A m \in 1..(k - 1) : list[m] # x

\* lines 51-56: the loop over the matches of one invariant
RECURSIVE MergeMatches(_, _, _, _)
MergeMatches(unified, matching, invariant, k) ==
    IF k > Len(matching) THEN unified
    ELSE LET match  == matching[k]
             merged == MergeConstraints(match, invariant)
         IN  MergeMatches(IF merged # match
                          THEN [unified EXCEPT ![IndexOf(unified, match)] = merged]
                          ELSE unified,
                          matching, invariant, k + 1)

\* uuid4(): the n-th value drawn; no two draws are equal
Uuid(n) == n

\* line 34: the list a call starts from
MutStartFromPrevious(previous) == previous

StartUnified(previous) == <<>>

WithStaticIds(exprs) ==
    [k \in 1..Len(exprs) |-> [id |-> StaticIds[k], expression |-> exprs[k]]]

WithDynamicIds(exprs) ==
    [k \in 1..Len(exprs) |-> [id |-> DynamicIds[k], expression |-> exprs[k]]]

CombInit ==
    /\ \E exprs \in SeqsUpTo(Expressions, MaxStatic) :
           static_constraints = WithStaticIds(exprs)
    /\ \E exprs \in SeqsUpTo(Expressions, MaxDynamic) :
           dynamic_invariants = WithDynamicIds(exprs)
    /\ unified_constraints = <<>>
    /\ comb_idx = 1
    /\ uuid_count = 0
    /\ first_result = <<>>
    /\ comb_run = 1
    /\ comb_pc = "static"

CombIdle ==
    /\ static_constraints = <<>>
    /\ dynamic_invariants = <<>>
    /\ unified_constraints = <<>>
    /\ comb_idx = 1
    /\ uuid_count = 0
    /\ first_result = <<>>
    /\ comb_run = 1
    /\ comb_pc = "idle"

\* lines 37-43: one iteration over static_constraints
CombAddStatic ==
    /\ comb_pc = "static"
    /\ comb_idx <= Len(static_constraints)
    /\ unified_constraints' =
         Append(unified_constraints,
                [ id              |-> Uuid(uuid_count + 1),
                  expression      |-> static_constraints[comb_idx].expression,
                  originating_ids |-> <<static_constraints[comb_idx].id>> ])
    /\ uuid_count' = uuid_count + 1
    /\ comb_idx' = comb_idx + 1
    /\ UNCHANGED <<static_constraints, dynamic_invariants, first_result,
                   comb_run, comb_pc>>

\* the first loop is exhausted
CombStaticDone ==
    /\ comb_pc = "static"
    /\ comb_idx > Len(static_constraints)
    /\ comb_pc' = "dynamic"
    /\ comb_idx' = 1
    /\ UNCHANGED <<static_constraints, dynamic_invariants, unified_constraints,
                   uuid_count, first_result, comb_run>>

\* lines 46-56: one iteration over dynamic_invariants, with matches
CombMergeInvariant ==
    /\ comb_pc = "dynamic"
    /\ comb_idx <= Len(dynamic_invariants)
    /\ LET invariant == dynamic_invariants[comb_idx]
           matching  == FindMatchingConstraints(invariant, unified_constraints)
       IN  /\ matching # <<>>
           /\ unified_constraints' =
                MergeMatches(unified_constraints, matching, invariant, 1)
    /\ comb_idx' = comb_idx + 1
    /\ UNCHANGED <<static_constraints, dynamic_invariants, uuid_count,
                   first_result, comb_run, comb_pc>>

\* lines 46-47, 57-64: one iteration over dynamic_invariants, without match
CombAddInvariant ==
    /\ comb_pc = "dynamic"
    /\ comb_idx <= Len(dynamic_invariants)
    /\ LET invariant == dynamic_invariants[comb_idx]
       IN  /\ FindMatchingConstraints(invariant, unified_constraints) = <<>>
           /\ unified_constraints' =
                Append(unified_constraints,
                       [ id              |-> Uuid(uuid_count + 1),
                         expression      |-> invariant.expression,
                         originating_ids |-> <<invariant.id>> ])
    /\ uuid_count' = uuid_count + 1
    /\ comb_idx' = comb_idx + 1
    /\ UNCHANGED <<static_constraints, dynamic_invariants, first_result,
                   comb_run, comb_pc>>

\* line 66: return unified_constraints
CombReturn ==
    /\ comb_pc = "dynamic"
    /\ comb_idx > Len(dynamic_invariants)
    /\ comb_pc' = "returned"
    /\ UNCHANGED <<static_constraints, dynamic_invariants, unified_constraints,
                   comb_idx, uuid_count, first_result, comb_run>>

\* the caller keeps the first result and calls combine_constraints again
\* with the same two lists (line 34 of the second call)
CombCallAgain ==
    /\ comb_pc = "returned"
    /\ comb_run = 1
    /\ first_result' = unified_constraints
    /\ unified_constraints' = StartUnified(unified_constraints)
    /\ comb_run' = 2
    /\ comb_idx' = 1
    /\ comb_pc' = "static"
    /\ UNCHANGED <<static_constraints, dynamic_invariants, uuid_count>>

(***************************************************************************)
(* TestExecutor                                                            *)
(***************************************************************************)
MaxTests == 2
MaxTimeout == 2
MaxDuration == 3
MaxRetries == 1

\* runtime tags of the scripts: the two runtimes, one of them also in
\* another letter case, and an unsupported one
Languages == {"python", "groovy", "Groovy", "ruby"}

\* str.lower()
Lower(language) == IF language = "Groovy" THEN "groovy" ELSE language

\* operation_sequence_id of the k-th script
SequenceIdOf(k) == <<"seq1", "seq2", "seq3", "seq4">>[k]

\* the <testcase> elements of a results.xml, each named by its child
\* element: none ("pass"), <failure>, <error> or <skipped>
Reports == { <<>>, <<"pass">>, <<"failure">>, <<"error">>, <<"skipped">>,
             <<"pass", "failure">> }

\* a results.xml that is not well-formed XML
MalformedXml == <<"not well-formed">>

\* TestOutcome; details is the message text and the number formatted into it
Outcome(test_name, status, text, arg) ==
    [ test_name |-> test_name,
      status    |-> status,
      details   |-> [text |-> text, arg |-> arg] ]

\* _parse_pytest_results, lines 340-377: the outcome of one test case
PytestCaseOutcome(case) ==
    CASE case = "failure" -> Outcome("testcase", "mismatched", "failure message", 0)
      [] case = "error"   -> Outcome("testcase", "unknown", "error message", 0)
      [] case = "skipped" -> Outcome("testcase", "unknown", "Test skipped:", 0)
      [] OTHER            -> Outcome("testcase", "matched", "Test passed", 0)

\* _parse_groovy_results, lines 416-442: the outcome of one test case
GroovyCaseOutcome(case) ==
    CASE case = "failure" -> Outcome("testcase", "mismatched", "failure message", 0)
      [] case = "error"   -> Outcome("testcase", "unknown", "error message", 0)
      [] OTHER            -> Outcome("testcase", "matched", "Test passed", 0)

\* lines 378-386 and 443-451: the report cannot be parsed
XmlParsingOutcomes ==
    <<Outcome("xml_parsing", "unknown", "Error parsing test results:", 0)>>

\* _parse_pytest_results
ParsePytestResults(xml) ==
    IF xml = MalformedXml THEN XmlParsingOutcomes
    ELSE [k \in 1..Len(xml) |-> PytestCaseOutcome(xml[k])]

\* _parse_groovy_results
ParseGroovyResults(xml) ==
    IF xml = MalformedXml THEN XmlParsingOutcomes
    ELSE [k \in 1..Len(xml) |-> GroovyCaseOutcome(xml[k])]

\* lines 139-149 and 282-292: no results.xml was written
NoReportOutcomes(test, returncode) ==
    <<Outcome(test.operation_sequence_id,
              IF returncode # 0 THEN "unknown" ELSE "matched",
              "Exit code:", returncode)>>

\* lines 151-158 and 294-301: except subprocess.TimeoutExpired
MutTimeoutOutcomesAsFailure(test, seconds) ==
    <<Outcome(test.operation_sequence_id, "mismatched",
              "Test execution timed out after", seconds)>>

TimeoutOutcomes(test, seconds) ==
    <<Outcome(test.operation_sequence_id, "unknown",
              "Test execution timed out after", seconds)>>

\* lines 159-166 and 302-309: except Exception
ErrorOutcomes(test) ==
    <<Outcome(test.operation_sequence_id, "unknown",
              "Error during test execution:", 0)>>

\* lines 189-196: groovy is not installed
MutGroovyUnavailableSilent(test) == <<>>

GroovyUnavailableOutcomes(test) ==
    <<Outcome(test.operation_sequence_id, "unknown",
              "Groovy is not installed or not available in PATH", 0)>>

\* subprocess.run(cmd, timeout=seconds): how long the caller waits for a
\* child that needs `duration` to finish
WaitFor(duration, seconds) == IF duration > seconds THEN seconds ELSE duration

\* lines 181-187: the result of "groovy --version" (run with timeout=5)
GroovyCheckResults ==
    IF groovy_present THEN {"ok", "nonzero", "timeout"} ELSE {"not_found"}

NoChild == [state |-> "none", duration |-> 0, waited |-> 0]

CurrentTest == verified_tests[test_idx]

\* a per-script failure that ends the loop
MutExtendAborts(event, xml, test_outcomes) ==
    /\ outcomes' = outcomes \o test_outcomes
    /\ script_log' = Append(script_log,
                            [ test   |-> test_idx,
                              event  |-> event,
                              report |-> xml,
                              first  |-> Len(outcomes) + 1,
                              count  |-> Len(test_outcomes) ])
    /\ test_idx' = IF event \in {"report", "no_report"}
                   THEN test_idx + 1
                   ELSE Len(verified_tests) + 1

\* a script without usable result is run once more when retries are allowed
MutExtendRetries(event, xml, test_outcomes) ==
    /\ outcomes' = outcomes \o test_outcomes
    /\ script_log' = Append(script_log,
                            [ test   |-> test_idx,
                              event  |-> event,
                              report |-> xml,
                              first  |-> Len(outcomes) + 1,
                              count  |-> Len(test_outcomes) ])
    /\ test_idx' = IF /\ event \notin {"report", "no_runtime"}
                      /\ max_retries > 0
                      /\ \A k \in 1..Len(script_log) :
                            script_log[k].test # test_idx
                   THEN test_idx
                   ELSE test_idx + 1

\* lines 74 of execute_tests after a per-script call returned test_outcomes
ExtendFromReport(event, xml, test_outcomes) ==
    /\ outcomes' = outcomes \o test_outcomes
    /\ script_log' = Append(script_log,
                            [ test   |-> test_idx,
                              event  |-> event,
                              report |-> xml,
                              first  |-> Len(outcomes) + 1,
                              count  |-> Len(test_outcomes) ])
    /\ test_idx' = test_idx + 1

\* the same for a per-script call that parsed no report
ExtendOutcomes(event, test_outcomes) ==
    ExtendFromReport(event, <<>>, test_outcomes)

WithSequenceIds(languages) ==
    [k \in 1..Len(languages) |->
        [operation_sequence_id |-> SequenceIdOf(k), language |-> languages[k]]]

ExecInit ==
    /\ \E languages \in SeqsUpTo(Languages, MaxTests) :
           verified_tests = WithSequenceIds(languages)
    /\ timeout \in 1..MaxTimeout
    /\ parallel \in BOOLEAN
    /\ max_retries \in {0, MaxRetries}
    /\ groovy_present \in BOOLEAN
    /\ test_idx = 1
    /\ outcomes = <<>>
    /\ script_log = <<>>
    /\ workspaces = {}
    /\ dirs_created = 0
    /\ child = NoChild
    /\ exec_pc = "dispatch"

ExecIdle ==
    /\ verified_tests = <<>>
    /\ timeout = 1
    /\ parallel = FALSE
    /\ max_retries = 0
    /\ groovy_present = FALSE
    /\ test_idx = 1
    /\ outcomes = <<>>
    /\ script_log = <<>>
    /\ workspaces = {}
    /\ dirs_created = 0
    /\ child = NoChild
    /\ exec_pc = "idle"

\* execute_tests, lines 70-72: unsupported language, continue
ExecSkipUnsupported ==
    /\ exec_pc = "dispatch"
    /\ test_idx <= Len(verified_tests)
    /\ Lower(CurrentTest.language) \notin {"python", "groovy"}
    /\ script_log' = Append(script_log,
                            [ test   |-> test_idx,
                              event  |-> "unsupported",
                              report |-> <<>>,
                              first  |-> Len(outcomes) + 1,
                              count  |-> 0 ])
    /\ test_idx' = test_idx + 1
    /\ UNCHANGED <<verified_tests, timeout, parallel, max_retries, groovy_present, outcomes,
                   workspaces, dirs_created, child, exec_pc>>

\* a fresh temporary directory and a started child process
StartChild(next_pc) ==
    /\ workspaces' = workspaces \cup {dirs_created + 1}
    /\ dirs_created' = dirs_created + 1
    /\ child' = [state |-> "running", duration |-> 0, waited |-> 0]
    /\ exec_pc' = next_pc

\* execute_tests lines 66-67, _execute_python_test lines 90-131: the
\* workspace is created and pytest is started
ExecStartPython ==
    /\ exec_pc = "dispatch"
    /\ test_idx <= Len(verified_tests)
    /\ Lower(CurrentTest.language) = "python"
    /\ StartChild("python_child")
    /\ UNCHANGED <<verified_tests, timeout, parallel, max_retries, groovy_present, test_idx, outcomes,
                   script_log>>

\* execute_tests lines 68-69: _execute_groovy_test is called
ExecCallGroovy ==
    /\ exec_pc = "dispatch"
    /\ test_idx <= Len(verified_tests)
    /\ Lower(CurrentTest.language) = "groovy"
    /\ exec_pc' = "groovy_check"
    /\ UNCHANGED <<verified_tests, timeout, parallel, max_retries, groovy_present, test_idx, outcomes,
                   script_log, workspaces, dirs_created, child>>

\* _execute_groovy_test lines 181-196: groovy is not usable
GroovyCheckFails ==
    /\ exec_pc = "groovy_check"
    /\ \E result \in GroovyCheckResults : result # "ok"
    /\ ExtendOutcomes("no_runtime", GroovyUnavailableOutcomes(CurrentTest))
    /\ exec_pc' = "dispatch"
    /\ UNCHANGED <<verified_tests, timeout, parallel, max_retries, groovy_present, workspaces,
                   dirs_created, child>>

\* _execute_groovy_test lines 181-274: groovy is usable, the workspace is
\* created and the collector script is started
GroovyCheckPasses ==
    /\ exec_pc = "groovy_check"
    /\ "ok" \in GroovyCheckResults
    /\ StartChild("groovy_child")
    /\ UNCHANGED <<verified_tests, timeout, parallel, max_retries, groovy_present, test_idx, outcomes,
                   script_log>>

\* a return that leaves the temporary directory behind
MutLeaveWorkspaceKeep(final_child) ==
    /\ workspaces' = workspaces
    /\ child' = final_child
    /\ exec_pc' = "dispatch"

\* the end of the `with tempfile.TemporaryDirectory()` block and the return
LeaveWorkspace(final_child) ==
    /\ workspaces' = workspaces \ {dirs_created}
    /\ child' = final_child
    /\ exec_pc' = "dispatch"

\* lines 151-158, 294-301: the child does not finish within the timeout
ChildTimesOut ==
    /\ exec_pc \in {"python_child", "groovy_child"}
    /\ \E duration \in 1..MaxDuration :
          /\ duration > timeout
          /\ LeaveWorkspace([ state    |-> "killed",
                              duration |-> duration,
                              waited   |-> WaitFor(duration, timeout) ])
    /\ ExtendOutcomes("timeout", TimeoutOutcomes(CurrentTest, timeout))
    /\ UNCHANGED <<verified_tests, timeout, parallel, max_retries, groovy_present, dirs_created>>

\* lines 133-136, 276-279: the child finished and wrote results.xml
ChildWritesReport ==
    /\ exec_pc \in {"python_child", "groovy_child"}
    /\ \E duration \in 1..MaxDuration, xml \in Reports \cup {MalformedXml} :
          /\ duration <= timeout
          /\ LeaveWorkspace([ state    |-> "exited",
                              duration |-> duration,
                              waited   |-> WaitFor(duration, timeout) ])
          /\ ExtendFromReport(IF xml = MalformedXml THEN "bad_report" ELSE "report",
                              xml,
                              IF exec_pc = "python_child"
                              THEN ParsePytestResults(xml)
                              ELSE ParseGroovyResults(xml))
    /\ UNCHANGED <<verified_tests, timeout, parallel, max_retries, groovy_present, dirs_created>>

\* lines 137-149, 280-292: the child finished without results.xml
ChildWritesNoReport ==
    /\ exec_pc \in {"python_child", "groovy_child"}
    /\ \E duration \in 1..MaxDuration, returncode \in {0, 1} :
          /\ duration <= timeout
          /\ LeaveWorkspace([ state    |-> "exited",
                              duration |-> duration,
                              waited   |-> WaitFor(duration, timeout) ])
          /\ ExtendOutcomes("no_report", NoReportOutcomes(CurrentTest, returncode))
    /\ UNCHANGED <<verified_tests, timeout, parallel, max_retries, groovy_present, dirs_created>>

\* lines 159-166, 302-309: subprocess.run raises another exception
ChildLaunchFails ==
    /\ exec_pc \in {"python_child", "groovy_child"}
    /\ LeaveWorkspace([state |-> "failed", duration |-> 0, waited |-> 0])
    /\ ExtendOutcomes("error", ErrorOutcomes(CurrentTest))
    /\ UNCHANGED <<verified_tests, timeout, parallel, max_retries, groovy_present, dirs_created>>

\* execute_tests lines 76-78: the loop is exhausted, the suite is returned
ExecReturn ==
    /\ exec_pc = "dispatch"
    /\ test_idx > Len(verified_tests)
    /\ exec_pc' = "returned"
    /\ UNCHANGED <<verified_tests, timeout, parallel, max_retries, groovy_present, test_idx, outcomes,
                   script_log, workspaces, dirs_created, child>>

(***************************************************************************)
(* ExperienceReinforcement                                                 *)
(* Every public method opens its own connection to the SQLite file.  The   *)
(* database serialises write transactions (one writer holds the write      *)
(* lock from its first INSERT/UPDATE to its commit or rollback); a SELECT  *)
(* outside a transaction reads the committed rows.                         *)
(***************************************************************************)
MaxCalls == 3
MaxConcCalls == 2

\* the threads of the concurrent specification
Writers == {1, 2}

\* arguments of update_odg_edge
EdgeOps == {"a", "b"}

EdgeWeights == {1, 2}

\* arguments of add_prompt_template
TemplateNames == {"t1", "t2"}

TemplateTexts == {"x", "y"}

PromptTemplate(name, text) ==
    [name |-> name, template_text |-> text, version |-> "1.0.0"]

\* arguments of process_results: the outcomes of a suite
StoredOutcome(test_name, status) == [test_name |-> test_name, status |-> status]

Suites ==
    { <<>>,
      <<StoredOutcome("t", "matched")>>,
      <<StoredOutcome("t", "mismatched"), StoredOutcome("u", "unknown")>> }

\* the committed contents of the three tables
Committed == <<store_log, store_templates, store_edges>>

\* a connection that is not inside a call
NoCall ==
    [ pc |-> "idle", op |-> "none", arg |-> <<>>, count |-> 0,
      pending |-> <<>>, before |-> <<>>, seen |-> <<>> ]

\* sqlite3.connect at the start of a call
Connect(op, arg, pc) ==
    [ pc |-> pc, op |-> op, arg |-> arg, count |-> 0,
      pending |-> <<>>, before |-> Committed, seen |-> <<>> ]

\* SELECT COUNT(*) FROM odg_weights WHERE src_operation = ? AND dst_operation = ?
CountEdges(rows, src, dst) ==
    Cardinality({k \in 1..Len(rows) : rows[k].src = src /\ rows[k].dst = dst})

\* UPDATE odg_weights SET weight = ? WHERE src_operation = ? AND dst_operation = ?
UpdateEdgeRows(rows, arg) ==
    [k \in 1..Len(rows) |->
        IF rows[k].src = arg.src /\ rows[k].dst = arg.dst
        THEN [rows[k] EXCEPT !.weight = arg.weight]
        ELSE rows[k]]

\* INSERT INTO odg_weights (src_operation, dst_operation, weight)
InsertEdgeRow(rows, arg) == Append(rows, arg)

\* update_odg_edge, lines 305-326: the statement chosen from the count
MutEdgeWriteAlwaysInsert(rows, arg, count) == InsertEdgeRow(rows, arg)

EdgeWrite(rows, arg, count) ==
    IF count > 0 THEN UpdateEdgeRows(rows, arg) ELSE InsertEdgeRow(rows, arg)

\* the UNIQUE constraint on prompt_templates.name
MutNameTakenNever(rows, name) == FALSE

NameTaken(rows, name) == \E k \in 1..Len(rows) : rows[k].name = name

\* _store_results, lines 114-128: one INSERT per outcome, in suite order
MutLogWriteReplaces(rows, suite) == suite

LogWrite(rows, suite) == rows \o suite

\* conn.rollback(): what the failed call leaves in its table
MutRollbackKeepsPending(committed, pending) ==
    IF pending = <<>> THEN committed ELSE pending

Rollback(committed, pending) == committed

\* _update_prompts, lines 148-179: the stored templates, or the default one
MutRefinedPromptsNoDefault(rows) == rows

RefinedPrompts(rows) ==
    IF rows = <<>>
    THEN <<[name |-> "default_constraint_template",
            template_text |-> "default", version |-> "1.0.0"]>>
    ELSE rows

\* get_odg_weights / _update_weights: dict "src->dst" -> weight; a later
\* row of the same key overwrites an earlier one
WeightsOf(rows) ==
    [key \in {<<rows[k].src, rows[k].dst>> : k \in 1..Len(rows)} |->
        LET last == CHOOSE k \in 1..Len(rows) :
                        /\ <<rows[k].src, rows[k].dst>> = key
                        /\ \A m \in (k+1)..Len(rows) :
                              <<rows[m].src, rows[m].dst>> # key
        IN  rows[last].weight]

\* the record of a returned call
Returned(p, result, error, value, after) ==
    [ writer |-> p, op |-> conn[p].op, arg |-> conn[p].arg,
      result |-> result, error |-> error, value |-> value,
      before |-> conn[p].before, seen |-> conn[p].seen, after |-> after ]

\* the call of writer p returns
Finish(p, result, error, value, after) ==
    /\ history' = Append(history, Returned(p, result, error, value, after))
    /\ conn' = [conn EXCEPT ![p] = NoCall]

ReleaseLock(p) == db_lock' = IF db_lock = p THEN 0 ELSE db_lock

StoreInit ==
    /\ store_log = <<>>
    /\ store_templates = <<>>
    /\ store_edges = <<>>
    /\ db_lock = 0
    /\ writers \in {{1}, Writers}
    /\ conn = [p \in writers |-> NoCall]
    /\ history = <<>>
    /\ calls_started = 0

StoreIdle ==
    /\ store_log = <<>>
    /\ store_templates = <<>>
    /\ store_edges = <<>>
    /\ db_lock = 0
    /\ writers = {}
    /\ conn = <<>>
    /\ history = <<>>
    /\ calls_started = 0

\* the number of calls of a run: MaxCalls in a row by one thread, or
\* MaxConcCalls by the concurrent threads
CallLimit == IF Cardinality(writers) = 1 THEN MaxCalls ELSE MaxConcCalls

MayCall(p) ==
    /\ conn[p].pc = "idle"
    /\ calls_started < CallLimit
    /\ calls_started' = calls_started + 1

\* update_odg_edge, lines 292-293: the call connects
UpdBegin(p) ==
    /\ MayCall(p)
    /\ \E src \in EdgeOps, dst \in EdgeOps, weight \in EdgeWeights :
          conn' = [conn EXCEPT ![p] =
                      Connect("update_odg_edge",
                              [src |-> src, dst |-> dst, weight |-> weight],
                              "upd_select")]
    /\ UNCHANGED <<store_log, store_templates, store_edges, db_lock, writers,
                   history>>

\* lines 297-304: the existence check, on the committed rows
UpdSelect(p) ==
    /\ conn[p].pc = "upd_select"
    /\ conn' = [conn EXCEPT
                   ![p].count = CountEdges(store_edges, conn[p].arg.src,
                                           conn[p].arg.dst),
                   ![p].pc = "upd_write"]
    /\ UNCHANGED <<store_log, store_templates, store_edges, db_lock, writers,
                   history, calls_started>>

\* lines 306-326: the UPDATE or the INSERT opens the write transaction; it
\* waits while another connection holds the write lock
UpdWrite(p) ==
    /\ conn[p].pc = "upd_write"
    /\ db_lock = 0
    /\ db_lock' = p
    /\ conn' = [conn EXCEPT
                   ![p].pending = EdgeWrite(store_edges, conn[p].arg,
                                            conn[p].count),
                   ![p].pc = "upd_commit"]
    /\ UNCHANGED <<store_log, store_templates, store_edges, writers, history,
                   calls_started>>

\* lines 328-329 and 333-335: commit, close, return True
UpdCommit(p) ==
    /\ conn[p].pc = "upd_commit"
    /\ store_edges' = conn[p].pending
    /\ db_lock' = 0
    /\ Finish(p, "True", FALSE, <<>>,
              <<store_log, store_templates, conn[p].pending>>)
    /\ UNCHANGED <<store_log, store_templates, writers, calls_started>>

\* lines 330-335: sqlite3.Error in a statement or in the commit (I/O error,
\* full disk, lock wait timed out): rollback, close, return False
UpdStorageError(p) ==
    /\ conn[p].pc \in {"upd_select", "upd_write", "upd_commit"}
    /\ store_edges' = Rollback(store_edges, conn[p].pending)
    /\ ReleaseLock(p)
    /\ Finish(p, "False", TRUE, <<>>,
              <<store_log, store_templates,
                Rollback(store_edges, conn[p].pending)>>)
    /\ UNCHANGED <<store_log, store_templates, writers, calls_started>>

\* add_prompt_template, lines 256-257: the call connects
AddBegin(p) ==
    /\ MayCall(p)
    /\ \E name \in TemplateNames, text \in TemplateTexts :
          conn' = [conn EXCEPT ![p] =
                      Connect("add_prompt_template",
                              PromptTemplate(name, text), "add_insert")]
    /\ UNCHANGED <<store_log, store_templates, store_edges, db_lock, writers,
                   history>>

\* lines 260-267: the INSERT opens the write transaction and passes the
\* UNIQUE constraint
AddInsert(p) ==
    /\ conn[p].pc = "add_insert"
    /\ db_lock = 0
    /\ ~NameTaken(store_templates, conn[p].arg.name)
    /\ db_lock' = p
    /\ conn' = [conn EXCEPT
                   ![p].pending = Append(store_templates, conn[p].arg),
                   ![p].seen = store_templates,
                   ![p].pc = "add_commit"]
    /\ UNCHANGED <<store_log, store_templates, store_edges, writers, history,
                   calls_started>>

\* lines 260-275: the INSERT violates the UNIQUE constraint
\* (sqlite3.IntegrityError): rollback, close, return False
AddRejected(p) ==
    /\ conn[p].pc = "add_insert"
    /\ db_lock = 0
    /\ NameTaken(store_templates, conn[p].arg.name)
    /\ history' = Append(history,
                         [Returned(p, "False", FALSE, <<>>, Committed)
                             EXCEPT !.seen = store_templates])
    /\ conn' = [conn EXCEPT ![p] = NoCall]
    /\ UNCHANGED <<store_log, store_templates, store_edges, db_lock, writers,
                   calls_started>>

\* lines 268-269 and 273-276: commit, close, return True
AddCommit(p) ==
    /\ conn[p].pc = "add_commit"
    /\ store_templates' = conn[p].pending
    /\ db_lock' = 0
    /\ Finish(p, "True", FALSE, <<>>,
              <<store_log, conn[p].pending, store_edges>>)
    /\ UNCHANGED <<store_log, store_edges, writers, calls_started>>

\* lines 270-276: sqlite3.Error other than the constraint: rollback, close,
\* return False
AddStorageError(p) ==
    /\ conn[p].pc \in {"add_insert", "add_commit"}
    /\ store_templates' = Rollback(store_templates, conn[p].pending)
    /\ ReleaseLock(p)
    /\ Finish(p, "False", TRUE, <<>>,
              <<store_log, Rollback(store_templates, conn[p].pending),
                store_edges>>)
    /\ UNCHANGED <<store_log, store_edges, writers, calls_started>>

\* process_results line 97, _store_results lines 111-112: the call connects
ProcBegin(p) ==
    /\ MayCall(p)
    /\ \E suite \in Suites :
          conn' = [conn EXCEPT ![p] =
                      Connect("process_results", suite, "proc_insert")]
    /\ UNCHANGED <<store_log, store_templates, store_edges, db_lock, writers,
                   history>>

\* _store_results lines 114-128: the INSERTs of the suite's outcomes
ProcInsert(p) ==
    /\ conn[p].pc = "proc_insert"
    /\ db_lock = 0
    /\ db_lock' = p
    /\ conn' = [conn EXCEPT
                   ![p].pending = LogWrite(store_log, conn[p].arg),
                   ![p].pc = "proc_commit"]
    /\ UNCHANGED <<store_log, store_templates, store_edges, writers, history,
                   calls_started>>

\* _store_results lines 130-131: commit and close
ProcCommit(p) ==
    /\ conn[p].pc = "proc_commit"
    /\ store_log' = conn[p].pending
    /\ db_lock' = 0
    /\ conn' = [conn EXCEPT ![p].pc = "proc_read", ![p].pending = <<>>]
    /\ UNCHANGED <<store_templates, store_edges, writers, history,
                   calls_started>>

\* process_results lines 100-107: _update_prompts and _update_weights read
\* the templates and the weights; the ReinforcementUpdate is returned
ProcReturn(p) ==
    /\ conn[p].pc = "proc_read"
    /\ Finish(p, "value", FALSE,
              [ refined_prompts |-> RefinedPrompts(store_templates),
                updated_odg_weights |-> WeightsOf(store_edges) ],
              Committed)
    /\ UNCHANGED <<store_log, store_templates, store_edges, db_lock, writers,
                   calls_started>>

\* _store_results has no handler: sqlite3.Error leaves process_results as
\* an exception, and the unfinished transaction is dropped with its
\* connection
ProcStorageError(p) ==
    /\ conn[p].pc \in {"proc_insert", "proc_commit"}
    /\ ReleaseLock(p)
    /\ Finish(p, "raised", TRUE, <<>>, Committed)
    /\ UNCHANGED <<store_log, store_templates, store_edges, writers,
                   calls_started>>

\* get_prompt_templates, lines 219-232
GetPromptTemplates(p) ==
    /\ MayCall(p)
    /\ history' = Append(history,
                         [ writer |-> p, op |-> "get_prompt_templates",
                           arg |-> <<>>, result |-> "value", error |-> FALSE,
                           value |-> store_templates, before |-> Committed,
                           seen |-> <<>>, after |-> Committed ])
    /\ UNCHANGED <<store_log, store_templates, store_edges, db_lock, writers,
                   conn>>

\* get_odg_weights, lines 234-244
GetOdgWeights(p) ==
    /\ MayCall(p)
    /\ history' = Append(history,
                         [ writer |-> p, op |-> "get_odg_weights",
                           arg |-> <<>>, result |-> "value", error |-> FALSE,
                           value |-> WeightsOf(store_edges),
                           before |-> Committed, seen |-> <<>>,
                           after |-> Committed ])
    /\ UNCHANGED <<store_log, store_templates, store_edges, db_lock, writers,
                   conn>>

(***************************************************************************)
(* DynamicInvariantMiner                                                   *)
(* A string of dot-separated names (a property path, a key) is the list of *)
(* its parts; a part is a name and whether "[]" is appended to it.         *)
(***************************************************************************)
MaxLogs == 2

\* JSON values as Python holds them after parsing
JNum(n) == [kind |-> "number", num |-> n, items |-> <<>>, fields |-> <<>>]

JBool(b) == [kind |-> "bool", num |-> IF b THEN 1 ELSE 0, items |-> <<>>,
             fields |-> <<>>]

JStr == [kind |-> "string", num |-> 0, items |-> <<>>, fields |-> <<>>]

JList(items) == [kind |-> "list", num |-> 0, items |-> items, fields |-> <<>>]

JDict(fields) == [kind |-> "dict", num |-> 0, items |-> <<>>, fields |-> fields]

Field(key, value) == [key |-> key, value |-> value]

\* Python's None: a JSON null, or the result of a failed lookup
None == [kind |-> "none", num |-> 0, items |-> <<>>, fields |-> <<>>]

\* response bodies: {"n": 5}, {"n": -1}, {"n": "x"}, {"n": true},
\* {"data": [1]}, {"data": [{"n": 1}]}, {"data": []}, {"a": {"n": 3}},
\* {"a.n": 3}, {}
Bodies ==
    { JDict(<<Field(<<"n">>, JNum(5))>>),
      JDict(<<Field(<<"n">>, JNum(-1))>>),
      JDict(<<Field(<<"n">>, JStr)>>),
      JDict(<<Field(<<"n">>, JBool(TRUE))>>),
      JDict(<<Field(<<"data">>, JList(<<JNum(1)>>))>>),
      JDict(<<Field(<<"data">>,
                    JList(<<JDict(<<Field(<<"n">>, JNum(1))>>)>>))>>),
      JDict(<<Field(<<"data">>, JList(<<>>))>>),
      JDict(<<Field(<<"a">>, JDict(<<Field(<<"n">>, JNum(3))>>))>>),
      JDict(<<Field(<<"a", "n">>, JNum(3))>>),
      JDict(<<>>) }

\* url path and method of the recorded exchanges: /v/c, /v/c/1, /v/r
Locations ==
    { [path |-> <<"/", "v", "/", "c">>, method |-> "GET"],
      [path |-> <<"/", "v", "/", "c", "/", "1">>, method |-> "GET"],
      [path |-> <<"/", "v", "/", "r">>, method |-> "GET"],
      [path |-> <<"/", "v", "/", "c">>, method |-> "POST"] }

HTTPResponse(location, body) ==
    [path |-> location.path, method |-> location.method, body |-> body]

\* _group_logs, lines 54-59: "/".join([""] + url_parts[1:3]) and the method
GroupKey(log) ==
    LET url_parts == SplitSlash(log.path)
        last == IF Len(url_parts) < 3 THEN Len(url_parts) ELSE 3
    IN  [endpoint |-> SubSeq(url_parts, 2, last), method |-> log.method]

\* _group_logs: the groups in order of first appearance
RECURSIVE GroupLogsFrom(_, _, _)
GroupLogsFrom(logs, k, grouped) ==
    IF k > Len(logs) THEN grouped
    ELSE LET key == GroupKey(logs[k])
             at == {g \in 1..Len(grouped) : grouped[g].key = key}
         IN  GroupLogsFrom(logs, k + 1,
                 IF at = {}
                 THEN Append(grouped, [key |-> key, logs |-> <<logs[k]>>,
                                       found |-> <<>>])
                 ELSE LET g == CHOOSE g \in at : TRUE
                      IN  [grouped EXCEPT ![g].logs = Append(@, logs[k])])

Part(name) == [name |-> name, arr |-> FALSE]

\* f"{prefix}.{key}" if prefix else key
JoinKey(prefix, key) == prefix \o [i \in 1..Len(key) |-> Part(key[i])]

\* f"{prefix}[]"
WithBrackets(prefix) ==
    IF prefix = <<>> THEN <<[name |-> "", arr |-> TRUE]>>
    ELSE [prefix EXCEPT ![Len(prefix)].arr = TRUE]

IsContainer(value) == value.kind \in {"dict", "list"}

\* _flatten_json
RECURSIVE FlattenJson(_, _)
FlattenJson(json_obj, prefix) ==
    IF json_obj.kind = "dict"
    THEN UNION { LET field == json_obj.fields[i]
                     new_prefix == JoinKey(prefix, field.key)
                 IN  IF IsContainer(field.value)
                     THEN FlattenJson(field.value, new_prefix)
                     ELSE {new_prefix}
                 : i \in 1..Len(json_obj.fields) }
    ELSE IF json_obj.kind = "list" /\ json_obj.items # <<>>
    THEN IF IsContainer(json_obj.items[1])
         THEN FlattenJson(json_obj.items[1], prefix)
         ELSE {WithBrackets(prefix)}
    ELSE {}

\* _extract_response_properties
ExtractResponseProperties(logs) ==
    UNION {FlattenJson(logs[k].body, <<>>) : k \in 1..Len(logs)}

\* `part in current` and current[part] for a dict: the key that is the
\* string of this one part
FieldsNamed(current, part) ==
    {i \in 1..Len(current.fields) :
        /\ ~part.arr
        /\ current.fields[i].key = <<part.name>>}

\* _get_nested_value: property_path.split(".") and one lookup per part
RECURSIVE GetNestedValue(_, _, _)
GetNestedValue(current, parts, i) ==
    IF i > Len(parts) THEN current
    ELSE IF current.kind = "dict" /\ FieldsNamed(current, parts[i]) # {}
    THEN GetNestedValue(
             current.fields[CHOOSE f \in FieldsNamed(current, parts[i]) : TRUE].value,
             parts, i + 1)
    ELSE None

\* isinstance(value, (int, float)): bool is a subclass of int
MutIsIntOrFloatAny(value) == value.kind # "none"

IsIntOrFloat(value) == value.kind \in {"number", "bool"}

\* _identify_numeric_properties
IdentifyNumericProperties(logs, properties) ==
    {prop \in properties :
        \A k \in 1..Len(logs) :
            LET value == GetNestedValue(logs[k].body, prop, 1)
            IN  value # None /\ IsIntOrFloat(value)}

\* _identify_array_properties
IdentifyArrayProperties(logs, properties) ==
    {prop \in properties :
        \A k \in 1..Len(logs) :
            GetNestedValue(logs[k].body, prop, 1).kind = "list"}

\* expression f"response.{property_path} >= 0"
RangeExpression(property_path) == [form |-> "range", path |-> property_path]

\* expression f"size(response.{property_path}) >= 0"
SizeExpression(property_path) == [form |-> "size", path |-> property_path]

\* _check_range_invariants
CheckRangeInvariants(logs, property_path) ==
    LET values == {k \in 1..Len(logs) :
                      GetNestedValue(logs[k].body, property_path, 1) # None}
    IN  IF values = {} THEN <<>>
        ELSE IF \A k \in values :
                    GetNestedValue(logs[k].body, property_path, 1).num >= 0
        THEN <<RangeExpression(property_path)>>
        ELSE <<>>

\* _check_size_invariants
CheckSizeInvariants(logs, property_path) == <<SizeExpression(property_path)>>

\* the orders in which a for loop may visit a set
Orders(S) == {order \in [1..Cardinality(S) -> S] : Range(order) = S}

RECURSIVE Concat(_, _)
Concat(lists, i) ==
    IF i > Len(lists) THEN <<>> ELSE lists[i] \o Concat(lists, i + 1)

\* _discover_endpoint_invariants with the two loops in the given orders
DiscoverEndpointInvariants(logs, numeric_order, array_order) ==
    Concat([i \in 1..Len(numeric_order) |->
               CheckRangeInvariants(logs, numeric_order[i])], 1)
    \o Concat([i \in 1..Len(array_order) |->
                  CheckSizeInvariants(logs, array_order[i])], 1)

MinerInit ==
    /\ \E f \in SeqsUpTo(Locations \X Bodies, MaxLogs) :
          execution_logs = [k \in 1..Len(f) |-> HTTPResponse(f[k][1], f[k][2])]
    /\ grouped_logs = <<>>
    /\ group_idx = 1
    /\ invariants = <<>>
    /\ miner_pc = "start"

MinerIdle ==
    /\ execution_logs = <<>>
    /\ grouped_logs = <<>>
    /\ group_idx = 1
    /\ invariants = <<>>
    /\ miner_pc = "idle"

\* discover_invariants, lines 33-34: no logs
MinerNoLogs ==
    /\ miner_pc = "start"
    /\ execution_logs = <<>>
    /\ miner_pc' = "returned"
    /\ UNCHANGED <<execution_logs, grouped_logs, group_idx, invariants>>

\* discover_invariants, line 37
MinerGroupLogs ==
    /\ miner_pc = "start"
    /\ execution_logs # <<>>
    /\ grouped_logs' = GroupLogsFrom(execution_logs, 1, <<>>)
    /\ miner_pc' = "groups"
    /\ UNCHANGED <<execution_logs, group_idx, invariants>>

\* discover_invariants, lines 42-44: one group
MinerDiscoverEndpoint ==
    /\ miner_pc = "groups"
    /\ group_idx <= Len(grouped_logs)
    /\ LET logs == grouped_logs[group_idx].logs
           properties == ExtractResponseProperties(logs)
       IN  \E numeric_order \in Orders(IdentifyNumericProperties(logs, properties)),
              array_order \in Orders(IdentifyArrayProperties(logs, properties)) :
               LET endpoint_invariants ==
                       DiscoverEndpointInvariants(logs, numeric_order, array_order)
               IN  /\ invariants' = invariants \o endpoint_invariants
                   /\ grouped_logs' =
                          [grouped_logs EXCEPT ![group_idx].found = endpoint_invariants]
    /\ group_idx' = group_idx + 1
    /\ UNCHANGED <<execution_logs, miner_pc>>

\* discover_invariants, line 46
MinerReturn ==
    /\ miner_pc = "groups"
    /\ group_idx > Len(grouped_logs)
    /\ miner_pc' = "returned"
    /\ UNCHANGED <<execution_logs, grouped_logs, group_idx, invariants>>

(***************************************************************************)
(* Specifications                                                          *)
(***************************************************************************)
SeqIdle ==
    /\ odg_nodes = <<>>
    /\ odg_edges = <<>>
    /\ max_sequence_length = 1
    /\ max_sequences = 0
    /\ graph = <<>>
    /\ start_nodes = <<>>
    /\ start_idx = 1
    /\ stack = <<>>
    /\ sequence_lists = <<>>
    /\ seq_pc = "idle"

SpecSeqInit == SeqInit /\ OdgIdle /\ CombIdle /\ ExecIdle
                /\ StoreIdle /\ MinerIdle

SpecSeqNext ==
    \/ SeqBegin /\ UNCHANGED <<odg_vars, comb_vars, exec_vars, store_vars, miner_vars>>
    \/ SeqCallDfs /\ UNCHANGED <<odg_vars, comb_vars, exec_vars, store_vars, miner_vars>>
    \/ DfsRecurse /\ UNCHANGED <<odg_vars, comb_vars, exec_vars, store_vars, miner_vars>>
    \/ DfsSkip /\ UNCHANGED <<odg_vars, comb_vars, exec_vars, store_vars, miner_vars>>
    \/ DfsReturnInner /\ UNCHANGED <<odg_vars, comb_vars, exec_vars, store_vars, miner_vars>>
    \/ DfsReturnOuter /\ UNCHANGED <<odg_vars, comb_vars, exec_vars, store_vars, miner_vars>>
    \/ SeqFinish /\ UNCHANGED <<odg_vars, comb_vars, exec_vars, store_vars, miner_vars>>

SpecSeq == SpecSeqInit /\ [][SpecSeqNext]_vars

\* Termination is checked with the largest limits, where the traversal is
\* the longest; a sequential program always takes its next step.
FairSeqInit ==
    /\ SpecSeqInit
    /\ max_sequence_length = MaxLen
    /\ max_sequences = MaxSeqs

FairSpecSeq == FairSeqInit /\ [][SpecSeqNext]_vars /\ WF_vars(SpecSeqNext)

SpecOdgInit == OdgInit /\ SeqIdle /\ CombIdle /\ ExecIdle
                /\ StoreIdle /\ MinerIdle

SpecOdgNext ==
    \/ OdgGroupResources /\ UNCHANGED <<seq_vars, comb_vars, exec_vars, store_vars, miner_vars>>
    \/ OdgConnectResource /\ UNCHANGED <<seq_vars, comb_vars, exec_vars, store_vars, miner_vars>>
    \/ OdgBuildGraph /\ UNCHANGED <<seq_vars, comb_vars, exec_vars, store_vars, miner_vars>>

SpecOdg == SpecOdgInit /\ [][SpecOdgNext]_vars

SpecCombInit == CombInit /\ SeqIdle /\ OdgIdle /\ ExecIdle
                /\ StoreIdle /\ MinerIdle

SpecCombNext ==
    \/ CombAddStatic /\ UNCHANGED <<seq_vars, odg_vars, exec_vars, store_vars, miner_vars>>
    \/ CombStaticDone /\ UNCHANGED <<seq_vars, odg_vars, exec_vars, store_vars, miner_vars>>
    \/ CombMergeInvariant /\ UNCHANGED <<seq_vars, odg_vars, exec_vars, store_vars, miner_vars>>
    \/ CombAddInvariant /\ UNCHANGED <<seq_vars, odg_vars, exec_vars, store_vars, miner_vars>>
    \/ CombReturn /\ UNCHANGED <<seq_vars, odg_vars, exec_vars, store_vars, miner_vars>>
    \/ CombCallAgain /\ UNCHANGED <<seq_vars, odg_vars, exec_vars, store_vars, miner_vars>>

SpecComb == SpecCombInit /\ [][SpecCombNext]_vars

SpecExecInit == ExecInit /\ SeqIdle /\ OdgIdle /\ CombIdle
                /\ StoreIdle /\ MinerIdle

SpecExecNext ==
    \/ ExecSkipUnsupported /\ UNCHANGED <<seq_vars, odg_vars, comb_vars, store_vars, miner_vars>>
    \/ ExecStartPython /\ UNCHANGED <<seq_vars, odg_vars, comb_vars, store_vars, miner_vars>>
    \/ ExecCallGroovy /\ UNCHANGED <<seq_vars, odg_vars, comb_vars, store_vars, miner_vars>>
    \/ GroovyCheckFails /\ UNCHANGED <<seq_vars, odg_vars, comb_vars, store_vars, miner_vars>>
    \/ GroovyCheckPasses /\ UNCHANGED <<seq_vars, odg_vars, comb_vars, store_vars, miner_vars>>
    \/ ChildTimesOut /\ UNCHANGED <<seq_vars, odg_vars, comb_vars, store_vars, miner_vars>>
    \/ ChildWritesReport /\ UNCHANGED <<seq_vars, odg_vars, comb_vars, store_vars, miner_vars>>
    \/ ChildWritesNoReport /\ UNCHANGED <<seq_vars, odg_vars, comb_vars, store_vars, miner_vars>>
    \/ ChildLaunchFails /\ UNCHANGED <<seq_vars, odg_vars, comb_vars, store_vars, miner_vars>>
    \/ ExecReturn /\ UNCHANGED <<seq_vars, odg_vars, comb_vars, store_vars, miner_vars>>

SpecExec == SpecExecInit /\ [][SpecExecNext]_vars

\* execute_tests is a sequential loop: it always takes its next step.
\* Termination is checked with the settings that ask for the most: parallel
\* execution and the largest number of retries.
FairExecInit ==
    /\ SpecExecInit
    /\ parallel
    /\ max_retries = MaxRetries

FairSpecExec == FairExecInit /\ [][SpecExecNext]_vars /\ WF_vars(SpecExecNext)

SpecStoreNext ==
    \/ \E p \in writers : UpdBegin(p) /\ UNCHANGED <<seq_vars, odg_vars, comb_vars, exec_vars, miner_vars>>
    \/ \E p \in writers : UpdSelect(p) /\ UNCHANGED <<seq_vars, odg_vars, comb_vars, exec_vars, miner_vars>>
    \/ \E p \in writers : UpdWrite(p) /\ UNCHANGED <<seq_vars, odg_vars, comb_vars, exec_vars, miner_vars>>
    \/ \E p \in writers : UpdCommit(p) /\ UNCHANGED <<seq_vars, odg_vars, comb_vars, exec_vars, miner_vars>>
    \/ \E p \in writers : UpdStorageError(p) /\ UNCHANGED <<seq_vars, odg_vars, comb_vars, exec_vars, miner_vars>>
    \/ \E p \in writers : AddBegin(p) /\ UNCHANGED <<seq_vars, odg_vars, comb_vars, exec_vars, miner_vars>>
    \/ \E p \in writers : AddInsert(p) /\ UNCHANGED <<seq_vars, odg_vars, comb_vars, exec_vars, miner_vars>>
    \/ \E p \in writers : AddRejected(p) /\ UNCHANGED <<seq_vars, odg_vars, comb_vars, exec_vars, miner_vars>>
    \/ \E p \in writers : AddCommit(p) /\ UNCHANGED <<seq_vars, odg_vars, comb_vars, exec_vars, miner_vars>>
    \/ \E p \in writers : AddStorageError(p) /\ UNCHANGED <<seq_vars, odg_vars, comb_vars, exec_vars, miner_vars>>
    \/ \E p \in writers : ProcBegin(p) /\ UNCHANGED <<seq_vars, odg_vars, comb_vars, exec_vars, miner_vars>>
    \/ \E p \in writers : ProcInsert(p) /\ UNCHANGED <<seq_vars, odg_vars, comb_vars, exec_vars, miner_vars>>
    \/ \E p \in writers : ProcCommit(p) /\ UNCHANGED <<seq_vars, odg_vars, comb_vars, exec_vars, miner_vars>>
    \/ \E p \in writers : ProcReturn(p) /\ UNCHANGED <<seq_vars, odg_vars, comb_vars, exec_vars, miner_vars>>
    \/ \E p \in writers : ProcStorageError(p) /\ UNCHANGED <<seq_vars, odg_vars, comb_vars, exec_vars, miner_vars>>
    \/ \E p \in writers : GetPromptTemplates(p) /\ UNCHANGED <<seq_vars, odg_vars, comb_vars, exec_vars, miner_vars>>
    \/ \E p \in writers : GetOdgWeights(p) /\ UNCHANGED <<seq_vars, odg_vars, comb_vars, exec_vars, miner_vars>>

\* one thread: every call returns before the next one starts
SpecStoreInit ==
    /\ StoreInit /\ writers = {1}
    /\ SeqIdle /\ OdgIdle /\ CombIdle /\ ExecIdle /\ MinerIdle

SpecStore == SpecStoreInit /\ [][SpecStoreNext]_vars

\* two threads on the same database file
SpecStoreConcInit ==
    /\ StoreInit /\ writers = Writers
    /\ SeqIdle /\ OdgIdle /\ CombIdle /\ ExecIdle /\ MinerIdle

SpecStoreConc == SpecStoreConcInit /\ [][SpecStoreNext]_vars

SpecMinerInit ==
    /\ MinerInit
    /\ SeqIdle /\ OdgIdle /\ CombIdle /\ ExecIdle /\ StoreIdle

SpecMinerNext ==
    \/ MinerNoLogs /\ UNCHANGED <<seq_vars, odg_vars, comb_vars, exec_vars, store_vars>>
    \/ MinerGroupLogs /\ UNCHANGED <<seq_vars, odg_vars, comb_vars, exec_vars, store_vars>>
    \/ MinerDiscoverEndpoint /\ UNCHANGED <<seq_vars, odg_vars, comb_vars, exec_vars, store_vars>>
    \/ MinerReturn /\ UNCHANGED <<seq_vars, odg_vars, comb_vars, exec_vars, store_vars>>

SpecMiner == SpecMinerInit /\ [][SpecMinerNext]_vars

(***************************************************************************)
(* Claims about the sequencer                                              *)
(***************************************************************************)
IsEdge(a, b) == \E i \in 1..Len(odg_edges) :
                    odg_edges[i].src = a /\ odg_edges[i].dst = b

HasSelfLoop == \E n \in Range(odg_nodes) : IsEdge(n, n)

HasTwoCycle == \E n, m \in Range(odg_nodes) : n # m /\ IsEdge(n, m) /\ IsEdge(m, n)

\* C1: every returned sequence has a length between 2 and
\* max_sequence_length and holds no operation id twice.
C1_LengthAndNoRepeat ==
    seq_pc = "done" =>
        \A k \in 1..Len(sequence_lists) :
            /\ Len(sequence_lists[k]) >= 2
            /\ Len(sequence_lists[k]) <= max_sequence_length
            /\ NoRepeat(sequence_lists[k])

C1_Witness ==
    /\ seq_pc = "done"
    /\ HasTwoCycle
    /\ \E k \in 1..Len(sequence_lists) :
           Len(sequence_lists[k]) = max_sequence_length

\* C2: every pair of consecutive operations of a returned sequence is an
\* edge (source, destination) of the input ODG.
C2_ConsecutiveAreEdges ==
    seq_pc = "done" =>
        \A k \in 1..Len(sequence_lists) :
            \A j \in 1..(Len(sequence_lists[k]) - 1) :
                IsEdge(sequence_lists[k][j], sequence_lists[k][j + 1])

C2_Witness ==
    /\ seq_pc = "done"
    /\ \E k \in 1..Len(sequence_lists) : Len(sequence_lists[k]) = 3

\* C3: generate_sequences terminates on every finite graph (cycles,
\* 2-cycles and self-loops included): no DFS branch holds a node twice, so
\* a self-loop is never expanded, and the run always reaches its end.
C3_StackPathsSimple ==
    \A f \in 1..Len(stack) :
        /\ NoRepeat(stack[f].path)
        /\ Len(stack[f].path) = f
        /\ stack[f].visited = Range(stack[f].path)

C3_Terminates == [](C3_StackPathsSimple) /\ <>(seq_pc = "done")

C3_Witness ==
    /\ seq_pc = "done"
    /\ HasSelfLoop
    /\ HasTwoCycle
    /\ sequence_lists # <<>>

\* the depth-first pre-order list of the paths that extend `path`
RECURSIVE PreOrderPaths(_, _)
RECURSIVE PreOrderOver(_, _, _)
PreOrderOver(path, nbrs, i) ==
    IF i > Len(nbrs) THEN <<>>
    ELSE (IF InSeq(nbrs[i], path) THEN <<>>
          ELSE PreOrderPaths(Append(path, nbrs[i]), max_sequence_length))
         \o PreOrderOver(path, nbrs, i + 1)

PreOrderPaths(path, limit) ==
    (IF Len(path) >= 2 THEN <<path>> ELSE <<>>)
    \o (IF Len(path) < limit
        THEN PreOrderOver(path, Neighbors(graph, path[Len(path)]), 1)
        ELSE <<>>)

RECURSIVE AllStartPaths(_)
AllStartPaths(i) ==
    IF i > Len(start_nodes) THEN <<>>
    ELSE PreOrderPaths(<<start_nodes[i]>>, max_sequence_length)
         \o AllStartPaths(i + 1)

\* C4: the result holds at most max_sequences sequences and is the prefix of
\* that length of the start nodes' pre-order path lists, concatenated in
\* start-node order.
C4_TruncatedPrefix ==
    seq_pc = "done" =>
        /\ Len(sequence_lists) <= max_sequences
        /\ sequence_lists = Take(AllStartPaths(1), max_sequences)

C4_Witness ==
    /\ seq_pc = "done"
    /\ max_sequences >= 1
    /\ Len(AllStartPaths(1)) > max_sequences
    /\ Len(sequence_lists) = max_sequences

(***************************************************************************)
(* Claims about the graph builder                                          *)
(***************************************************************************)
HasBuiltEdge(a, b) == \E k \in 1..Len(built_edges) :
                          built_edges[k].src = a /\ built_edges[k].dst = b

\* the first path segment (the text after the first "/"), <<>> when the
\* path has none
FirstSegment(path) ==
    IF Len(SplitSlash(path)) > 1 THEN SplitSlash(path)[2] ELSE <<>>

\* two operations name the same resource: each has a first path segment and
\* the two segments are equal after the trailing "s" is stripped
SameResourceGroup(i, j) ==
    /\ FirstSegment(operations[i].path) # <<>>
    /\ FirstSegment(operations[j].path) # <<>>
    /\ RStripS(FirstSegment(operations[i].path))
         = RStripS(FirstSegment(operations[j].path))

GroupEdgesPresent(i, j) ==
    /\ (operations[i].method = "GET"
          /\ operations[j].method \in {"POST", "PUT", "PATCH"})
       => HasBuiltEdge(operations[i].operation_id, operations[j].operation_id)
    /\ (operations[i].method = "POST" /\ operations[j].method = "GET")
       => HasBuiltEdge(operations[i].operation_id, operations[j].operation_id)

\* C5: for every two operations of one resource group the built graph holds
\* the edge GET -> POST/PUT/PATCH and the edge POST -> GET.
C5_GroupEdges ==
    odg_pc = "done" =>
        \A i, j \in 1..Len(operations) :
            SameResourceGroup(i, j) => GroupEdgesPresent(i, j)

\* C5 restricted to the groups whose normalised name is not empty
C5_NamedGroupEdges ==
    odg_pc = "done" =>
        \A i, j \in 1..Len(operations) :
            (SameResourceGroup(i, j)
               /\ RStripS(FirstSegment(operations[i].path)) # <<>>)
            => GroupEdgesPresent(i, j)

(***************************************************************************)
(* Claims about the combiner                                               *)
(***************************************************************************)
\* the integer values that tell the bounds 50 and 100 apart
TestValues == {49, 50, 51, 99, 100, 101}

Environments == [{"amount", "count"} -> TestValues]

AtomHolds(a, v) ==
    CASE a.o = ">"  -> v > a.n
      [] a.o = ">=" -> v >= a.n
      [] a.o = "<"  -> v < a.n
      [] a.o = "<=" -> v <= a.n
      [] a.o = "==" -> v = a.n

\* the response values env satisfy the expression
Satisfies(env, expr) == \A k \in 1..Len(expr) : AtomHolds(expr[k], env[expr[k].p])

AtLeastAsStrict(expr, source) ==
    \A env \in Environments : Satisfies(env, expr) => Satisfies(env, source)

\* the static constraints and dynamic invariants of the input
Sources == Range(static_constraints) \cup Range(dynamic_invariants)

\* C6: from the static constraint response.amount > 100 and the dynamic
\* invariant response.amount > 50 the combiner returns one unified
\* constraint, with the static expression and both ids in its provenance.
C6_StaticWinsWithBothIds ==
    ( /\ comb_pc = "returned"
      /\ static_constraints =
           <<[id |-> "s1", expression |-> <<Atom("amount", ">", 100)>>]>>
      /\ dynamic_invariants =
           <<[id |-> "d1", expression |-> <<Atom("amount", ">", 50)>>]>> )
    => /\ Len(unified_constraints) = 1
       /\ unified_constraints[1].expression = <<Atom("amount", ">", 100)>>
       /\ {"s1", "d1"} \subseteq Range(unified_constraints[1].originating_ids)

\* C7: every returned unified constraint is at least as strict as every
\* source whose id is in its provenance list.
C7_StricterThanSources ==
    comb_pc = "returned" =>
        \A k \in 1..Len(unified_constraints) :
            \A src \in Sources :
                src.id \in Range(unified_constraints[k].originating_ids)
                => AtLeastAsStrict(unified_constraints[k].expression,
                                   src.expression)

\* C8: the second call on the same two lists returns, position by position,
\* the expressions and provenance ids of the first call.
C8_SameResultTwice ==
    (comb_run = 2 /\ comb_pc = "returned") =>
        /\ Len(unified_constraints) = Len(first_result)
        /\ \A k \in 1..Len(unified_constraints) :
              /\ unified_constraints[k].expression = first_result[k].expression
              /\ unified_constraints[k].originating_ids
                   = first_result[k].originating_ids

C8_Witness ==
    /\ comb_run = 2
    /\ comb_pc = "returned"
    /\ Len(unified_constraints) >= 2
    /\ \E k \in 1..Len(unified_constraints) :
          /\ Len(unified_constraints[k].originating_ids) >= 2
          /\ unified_constraints[k].id # first_result[k].id

(***************************************************************************)
(* Claims about the test executor                                          *)
(***************************************************************************)
\* the outcomes that the k-th executed script added to the suite
OutcomesOf(k) ==
    SubSeq(outcomes, script_log[k].first,
           script_log[k].first + script_log[k].count - 1)

LanguageOf(k) == Lower(verified_tests[script_log[k].test].language)

IsTimeoutOutcome(o) ==
    /\ o.status = "unknown"
    /\ o.details = [text |-> "Test execution timed out after", arg |-> timeout]

\* C9: a script of either runtime whose child process exceeds the timeout
\* has exactly one outcome in the suite, unknown and naming the timeout,
\* and the executor waited for it for the timeout, not for its run time.
C9_TimeoutOneUnknown ==
    /\ \A k \in 1..Len(script_log) :
          script_log[k].event = "timeout" =>
              /\ script_log[k].count = 1
              /\ Len(outcomes) >= script_log[k].first
              /\ IsTimeoutOutcome(outcomes[script_log[k].first])
    /\ child.state = "killed" =>
          /\ child.duration > timeout
          /\ child.waited = timeout

C9_Witness ==
    /\ exec_pc = "returned"
    /\ \E k, m \in 1..Len(script_log) :
          /\ script_log[k].event = "timeout" /\ LanguageOf(k) = "python"
          /\ script_log[m].event = "timeout" /\ LanguageOf(m) = "groovy"

IsGroovyUnavailableOutcome(o) ==
    /\ o.status = "unknown"
    /\ o.details = [text |-> "Groovy is not installed or not available in PATH",
                    arg |-> 0]

\* what the python runtime alone yields for a script: an outcome list of
\* its own child process, whatever the state of the other runtime
IsPythonResult(k) ==
    LET test == verified_tests[script_log[k].test]
    IN  \/ OutcomesOf(k) = TimeoutOutcomes(test, timeout)
        \/ OutcomesOf(k) = ErrorOutcomes(test)
        \/ \E returncode \in {0, 1} : OutcomesOf(k) = NoReportOutcomes(test, returncode)
        \/ \E xml \in Reports \cup {MalformedXml} :
              OutcomesOf(k) = ParsePytestResults(xml)

\* C10: without a groovy binary every groovy script has exactly one
\* outcome, unknown and naming the missing runtime, and every python script
\* of the batch still has the outcomes of its own run.
C10_MissingGroovy ==
    (exec_pc = "returned" /\ ~groovy_present) =>
        /\ Len(script_log) = Len(verified_tests)
        /\ \A k \in 1..Len(script_log) :
              /\ script_log[k].test = k
              /\ LanguageOf(k) = "groovy" =>
                    /\ script_log[k].count = 1
                    /\ IsGroovyUnavailableOutcome(OutcomesOf(k)[1])
              /\ LanguageOf(k) = "python" =>
                    /\ script_log[k].event \in
                         {"timeout", "error", "no_report", "report", "bad_report"}
                    /\ IsPythonResult(k)

C10_Witness ==
    /\ exec_pc = "returned"
    /\ ~groovy_present
    /\ \E k, m \in 1..Len(script_log) :
          /\ LanguageOf(k) = "groovy" /\ verified_tests[k].language = "Groovy"
          /\ LanguageOf(m) = "python" /\ script_log[m].event = "report"
          /\ k < m

\* the status the report mapping gives a test case
CaseStatus(case) ==
    CASE case = "failure" -> "mismatched"
      [] case \in {"error", "skipped"} -> "unknown"
      [] OTHER -> "matched"

\* C11: for both runtimes every test case of a parsed report has one
\* outcome: mismatched with the failure message for a failure, unknown for
\* an error or a skip, matched otherwise.
C11_CaseMapping ==
    \A k \in 1..Len(script_log) :
        script_log[k].event = "report" =>
            /\ script_log[k].count = Len(script_log[k].report)
            /\ \A i \in 1..Len(script_log[k].report) :
                  LET o == OutcomesOf(k)[i]
                      case == script_log[k].report[i]
                  IN  /\ o.status = CaseStatus(case)
                      /\ case = "failure" => o.details.text = "failure message"

\* the same mapping for the reports of the python runtime alone
C11_PytestCaseMapping ==
    \A k \in 1..Len(script_log) :
        (script_log[k].event = "report" /\ LanguageOf(k) = "python") =>
            /\ script_log[k].count = Len(script_log[k].report)
            /\ \A i \in 1..Len(script_log[k].report) :
                  OutcomesOf(k)[i].status = CaseStatus(script_log[k].report[i])

\* the scripts whose execution created a workspace and has returned
RanChild ==
    {k \in 1..Len(script_log) :
        script_log[k].event \in
            {"timeout", "error", "no_report", "report", "bad_report"}}

\* C12: a workspace exists only while its script's child runs; it is gone
\* once the per-script execution has returned, on every exit path, and
\* every script that runs a child gets a directory of its own.
C12_WorkspaceReleased ==
    /\ exec_pc \in {"python_child", "groovy_child"} =>
          /\ workspaces = {dirs_created}
          /\ dirs_created = Cardinality(RanChild) + 1
    /\ exec_pc \notin {"python_child", "groovy_child"} =>
          /\ workspaces = {}
          /\ dirs_created = Cardinality(RanChild)

C12_Witness ==
    /\ exec_pc = "returned"
    /\ workspaces = {}
    /\ dirs_created = 2
    /\ \E k, m \in 1..Len(script_log) :
          /\ script_log[k].event = "timeout"
          /\ script_log[m].event \in {"error", "report"}

IsScriptFailure(event) ==
    event \in {"timeout", "no_runtime", "error", "bad_report"}

C13_AllAttempted ==
    exec_pc = "returned" =>
        /\ Len(script_log) = Len(verified_tests)
        /\ \A k \in 1..Len(script_log) : script_log[k].test = k

\* C13: whatever per-script failures happen, every script of the batch is
\* attempted, in order, and execute_tests returns its suite.
C13_NoFailureAborts == [](C13_AllAttempted) /\ <>(exec_pc = "returned")

C13_Witness ==
    /\ exec_pc = "returned"
    /\ Len(script_log) = MaxTests
    /\ \A k \in 1..Len(script_log) : IsScriptFailure(script_log[k].event)
    /\ \E k \in 1..Len(script_log) : script_log[k].event = "bad_report"
    /\ \E k \in 1..Len(script_log) : script_log[k].event = "no_runtime"

(***************************************************************************)
(* Claims about the reinforcement store                                    *)
(***************************************************************************)
IsCallOf(k, op) == history[k].op = op

\* the successful update_odg_edge calls for a pair, in return order
SuccessfulUpdates(src, dst) ==
    {k \in 1..Len(history) :
        /\ IsCallOf(k, "update_odg_edge")
        /\ history[k].result = "True"
        /\ history[k].arg.src = src
        /\ history[k].arg.dst = dst}

RecordsOf(src, dst) ==
    {k \in 1..Len(store_edges) :
        store_edges[k].src = src /\ store_edges[k].dst = dst}

LastOf(S) == CHOOSE k \in S : \A m \in S : m <= k

\* C14: after a series of update_odg_edge calls by one caller, the store
\* has exactly one record for each pair that a successful call was given,
\* with the weight of the last such call, and no record for other pairs.
C14_OneRecordLastWeight ==
    \A src \in EdgeOps, dst \in EdgeOps :
        IF SuccessfulUpdates(src, dst) = {}
        THEN RecordsOf(src, dst) = {}
        ELSE /\ Cardinality(RecordsOf(src, dst)) = 1
             /\ \A k \in RecordsOf(src, dst) :
                   store_edges[k].weight =
                       history[LastOf(SuccessfulUpdates(src, dst))].arg.weight

C14_Witness ==
    \E k, m \in SuccessfulUpdates("a", "b") :
        /\ k < m
        /\ history[k].arg.weight = 1
        /\ history[m].arg.weight = 2
        /\ Cardinality(RecordsOf("a", "b")) = 1

\* C15: under every interleaving of concurrent update_odg_edge calls the
\* store never has more than one record for a pair.
C15_AtMostOneRecord ==
    \A src \in EdgeOps, dst \in EdgeOps : Cardinality(RecordsOf(src, dst)) <= 1

HasTemplateNamed(rows, name) == name \in {rows[i].name : i \in 1..Len(rows)}

UniqueNames(rows) ==
    \A i, j \in 1..Len(rows) : rows[i].name = rows[j].name => i = j

\* C16: add_prompt_template returns False and changes no template when the
\* name is stored already, returns True and adds exactly its template when
\* the name is new, and the stored names stay unique under every
\* interleaving of calls.
C16_AddRejectsExistingName ==
    /\ UniqueNames(store_templates)
    /\ \A k \in 1..Len(history) :
          (IsCallOf(k, "add_prompt_template") /\ ~history[k].error) =>
              IF HasTemplateNamed(history[k].seen, history[k].arg.name)
              THEN /\ history[k].result = "False"
                   /\ history[k].after[2] = history[k].seen
              ELSE /\ history[k].result = "True"
                   /\ history[k].after[2] = Append(history[k].seen, history[k].arg)

C16_Witness ==
    /\ Cardinality(writers) = 2
    /\ \E k, m \in 1..Len(history) :
          /\ k < m
          /\ history[k].writer # history[m].writer
          /\ IsCallOf(k, "add_prompt_template") /\ history[k].result = "True"
          /\ IsCallOf(m, "add_prompt_template") /\ history[m].result = "False"
          /\ ~history[m].error
          /\ history[k].arg.name = history[m].arg.name
          /\ history[k].arg.template_text # history[m].arg.template_text
          /\ store_templates = <<history[k].arg>>

IsPrefix(s, t) == Len(s) <= Len(t) /\ SubSeq(t, 1, Len(s)) = s

\* the suites whose outcomes are committed, in commit order
RECURSIVE LoggedFrom(_)
LoggedFrom(k) ==
    IF k > Len(history) THEN <<>>
    ELSE (IF IsCallOf(k, "process_results") /\ history[k].result = "value"
          THEN history[k].arg ELSE <<>>) \o LoggedFrom(k + 1)

LoggedSuites ==
    LoggedFrom(1) \o
    (IF \E p \in writers : conn[p].pc = "proc_read"
     THEN conn[CHOOSE p \in writers : conn[p].pc = "proc_read"].arg
     ELSE <<>>)

LogOnlyGrows == IsPrefix(store_log, store_log')

\* C17: the outcome log is append-only: no step of any operation removes or
\* changes an entry, and the log is the outcomes of the processed suites,
\* one entry per outcome, in suite order.
C17_LogAppendOnly == [][LogOnlyGrows]_vars /\ [](store_log = LoggedSuites)

C17_Witness ==
    /\ Len(store_log) = 3
    /\ Len(history) = 3
    /\ \E k, m, n \in 1..Len(history) :
          /\ k < m /\ m < n
          /\ IsCallOf(k, "process_results") /\ Len(history[k].arg) = 2
          /\ IsCallOf(m, "update_odg_edge") /\ history[m].result = "True"
          /\ IsCallOf(n, "process_results") /\ Len(history[n].arg) = 1

IsUpsert(k) ==
    IsCallOf(k, "update_odg_edge") \/ IsCallOf(k, "add_prompt_template")

RECURSIVE ValuesAt(_, _)
ValuesAt(json_obj, parts) ==
    IF parts = <<>> THEN {json_obj}
    ELSE IF json_obj.kind # "dict" THEN {}
    ELSE UNION { LET key == JoinKey(<<>>, json_obj.fields[i].key)
                 IN  IF /\ Len(key) <= Len(parts)
                        /\ SubSeq(parts, 1, Len(key)) = key
                     THEN ValuesAt(json_obj.fields[i].value,
                                   SubSeq(parts, Len(key) + 1, Len(parts)))
                     ELSE {}
                 : i \in 1..Len(json_obj.fields) }

HoldsKind(body, path, kind) == \E v \in ValuesAt(body, path) : v.kind = kind

\* the property holds a number >= 0 in every exchange of the group
NonNegativeNumberInAll(logs, path) ==
    \A k \in 1..Len(logs) :
        /\ HoldsKind(logs[k].body, path, "number")
        /\ \A v \in ValuesAt(logs[k].body, path) : v.num >= 0

Emitted(group, expression) == expression \in Range(group.found)

\* the groups of the input by (endpoint, method), whatever the order
ExchangesOf(key) ==
    {k \in 1..Len(execution_logs) : GroupKey(execution_logs[k]) = key}

GroupsAreExact ==
    \A g \in 1..Len(grouped_logs) :
        /\ Len(grouped_logs[g].logs) = Cardinality(ExchangesOf(grouped_logs[g].key))
        /\ \A k \in 1..Len(grouped_logs[g].logs) :
              GroupKey(grouped_logs[g].logs[k]) = grouped_logs[g].key

\* C19: for each group and each flattened property path, the invariant
\* response.<path> >= 0 is emitted exactly when the property holds a number
\* in every exchange of the group and all these numbers are >= 0.
C19_NonNegativeIff ==
    miner_pc = "returned" =>
        /\ GroupsAreExact
        /\ \A g \in 1..Len(grouped_logs) :
              \A path \in ExtractResponseProperties(grouped_logs[g].logs) :
                  Emitted(grouped_logs[g], RangeExpression(path))
                      <=> NonNegativeNumberInAll(grouped_logs[g].logs, path)

\* bodies whose scalars are numbers and strings under keys without dots
IsPlainBody(body) ==
    \A i \in 1..Len(body.fields) :
        /\ Len(body.fields[i].key) = 1
        /\ body.fields[i].value.kind # "bool"

\* the same equivalence for groups of plain bodies
C19_PlainBodies ==
    miner_pc = "returned" =>
        \A g \in 1..Len(grouped_logs) :
            (\A k \in 1..Len(grouped_logs[g].logs) :
                 IsPlainBody(grouped_logs[g].logs[k].body)) =>
                \A path \in ExtractResponseProperties(grouped_logs[g].logs) :
                    Emitted(grouped_logs[g], RangeExpression(path))
                        <=> NonNegativeNumberInAll(grouped_logs[g].logs, path)

\* the property paths of the recorded bodies
PropertyPaths ==
    { <<Part("n")>>, <<Part("data")>>, <<Part("a")>>, <<Part("a"), Part("n")>> }

ListInAll(logs, path) ==
    \A k \in 1..Len(logs) : HoldsKind(logs[k].body, path, "list")

\* C20: for each group, every property that is a list in every exchange of
\* the group has its invariant size(response.<path>) >= 0 emitted.
C20_SizeOfLists ==
    miner_pc = "returned" =>
        \A g \in 1..Len(grouped_logs) :
            \A path \in PropertyPaths :
                ListInAll(grouped_logs[g].logs, path) =>
                    Emitted(grouped_logs[g], SizeExpression(path))

(***************************************************************************)
(* Further claims about the sequencer                                      *)
(***************************************************************************)
\* the nodes of the graph that no edge points to
NodesWithoutIncoming ==
    {n \in Range(odg_nodes) :
        \A i \in 1..Len(odg_edges) : odg_edges[i].dst # n}

\* C21: every sequence starts at a node without incoming edge when the
\* graph has such a node; only when it has none may any node start one.
C21_StartsAtSourceNodes ==
    \A k \in 1..Len(sequence_lists) :
        IF NodesWithoutIncoming # {}
        THEN sequence_lists[k][1] \in NodesWithoutIncoming
        ELSE sequence_lists[k][1] \in Range(odg_nodes)

C21_Witness ==
    /\ seq_pc = "done"
    /\ Len(sequence_lists) = 2
    /\ NodesWithoutIncoming # {}
    /\ NodesWithoutIncoming # Range(odg_nodes)
    /\ sequence_lists[1][1] # sequence_lists[2][1]

\* C22: an edge with an endpoint outside the node set is skipped: no
\* sequence has an operation id that is not a node of the graph.
C22_OnlyNodeIds ==
    \A k \in 1..Len(sequence_lists) :
        \A i \in 1..Len(sequence_lists[k]) :
            sequence_lists[k][i] \in Range(odg_nodes)

\* the same for graphs whose edges all end in the node set
C22_OnlyNodeIdsClosedGraph ==
    (\A i \in 1..Len(odg_edges) : odg_edges[i].dst \in Range(odg_nodes)) =>
        C22_OnlyNodeIds

\* C28: the returned collection is prefix-closed, truncated or not: each
\* prefix of length 2..n-1 of a returned sequence of length n is returned
\* too, before it.
C28_PrefixClosed ==
    seq_pc = "done" =>
        \A k \in 1..Len(sequence_lists) :
            \A n \in 2..(Len(sequence_lists[k]) - 1) :
                \E j \in 1..(k - 1) :
                    sequence_lists[j] = SubSeq(sequence_lists[k], 1, n)

C28_Witness ==
    /\ seq_pc = "done"
    /\ max_sequences = 2
    /\ start_idx < Len(start_nodes)
    /\ Len(sequence_lists) = 2
    /\ Len(sequence_lists[2]) = 3
    /\ Len(graph[sequence_lists[2][1]]) = 2

HasEdgeBetweenDistinctNodes ==
    \E i \in 1..Len(odg_edges) :
        /\ odg_edges[i].src # odg_edges[i].dst
        /\ odg_edges[i].src \in Range(odg_nodes)
        /\ odg_edges[i].dst \in Range(odg_nodes)

\* C29: a graph with an edge between two distinct nodes, a length limit of
\* at least 2 and a count limit of at least 1 yields at least one sequence.
C29_SomeSequence ==
    ( /\ seq_pc = "done"
      /\ HasEdgeBetweenDistinctNodes
      /\ max_sequence_length >= 2
      /\ max_sequences >= 1 ) => sequence_lists # <<>>

(***************************************************************************)
(* Further claims about the constraint combiner                            *)
(***************************************************************************)
\* a step of the second loop of combine_constraints (lines 46-64)
IsInvariantStep ==
    /\ comb_pc = "dynamic"
    /\ comb_idx <= Len(dynamic_invariants)
    /\ comb_idx' = comb_idx + 1

\* the positions of the unified constraints that the current invariant
\* matches
MatchedPositions ==
    {k \in 1..Len(unified_constraints) :
        ConstraintsOverlap(unified_constraints[k].expression,
                           dynamic_invariants[comb_idx].expression)}

IsCompound(expr) == Len(expr) > 1

KeepsCompoundStep ==
    IsInvariantStep =>
        \A k \in MatchedPositions :
            ( \/ IsCompound(unified_constraints[k].expression)
              \/ IsCompound(dynamic_invariants[comb_idx].expression) )
            => /\ Len(unified_constraints') >= k
               /\ unified_constraints'[k].expression
                    = unified_constraints[k].expression

\* C23: when the existing or the new expression of a match is compound, the
\* existing unified expression is kept unchanged.
C23_CompoundKeepsExisting == [][KeepsCompoundStep]_vars

MergeFrameStep ==
    (IsInvariantStep /\ MatchedPositions # {}) =>
        /\ Len(unified_constraints') = Len(unified_constraints)
        /\ \A k \in 1..Len(unified_constraints) :
              LET old == unified_constraints[k]
                  new == unified_constraints'[k]
                  invariant == dynamic_invariants[comb_idx]
              IN  /\ k \notin MatchedPositions => new = old
                  /\ new.expression = old.expression => new = old
                  /\ new.expression # old.expression =>
                        /\ new.id = old.id
                        /\ new.originating_ids
                             = Append(old.originating_ids, invariant.id)
                  /\ k \in MatchedPositions =>
                        new.expression
                          = SelectStricterConstraint(old.expression,
                                                     invariant.expression)

\* C24: a match that changes the expression replaces the constraint at its
\* position with the same id, the new expression and the invariant's id
\* appended to the provenance; a match that does not change it leaves the
\* constraint and the length of the list unchanged.
C24_MergeInPlace == [][MergeFrameStep]_vars

C24_Witness ==
    /\ comb_pc = "dynamic"
    /\ comb_idx = 3
    /\ Len(unified_constraints) = 1
    /\ unified_constraints[1].originating_ids = <<"s1", "d1">>
    /\ unified_constraints[1].expression # static_constraints[1].expression
    /\ ConstraintsOverlap(unified_constraints[1].expression,
                          dynamic_invariants[2].expression)

IsSingleInequality(expr) == Len(expr) = 1 /\ expr[1].o \in IneqOps

\* what the rule allows as result for the expressions existing and new
IsStricterChoice(existing, new, result) ==
    IF IsSingleInequality(existing) /\ IsSingleInequality(new)
    THEN LET a == existing[1]
             b == new[1]
         IN  IF a.o \in {">", ">="} /\ b.o \in {">", ">="}
             THEN /\ result \in {existing, new}
                  /\ result[1].n >= a.n
                  /\ result[1].n >= b.n
             ELSE IF a.o \in {"<", "<="} /\ b.o \in {"<", "<="}
             THEN /\ result \in {existing, new}
                  /\ result[1].n <= a.n
                  /\ result[1].n <= b.n
             ELSE result = existing
    ELSE result = existing

StricterChoiceStep ==
    IsInvariantStep =>
        \A k \in MatchedPositions :
            LET existing == unified_constraints[k].expression
                new == dynamic_invariants[comb_idx].expression
            IN  (~IsCompound(existing) /\ ~IsCompound(new)) =>
                   IsStricterChoice(existing, new,
                                    unified_constraints'[k].expression)

\* C25: of two single inequalities the one with the larger bound is chosen
\* when both are > or >=, the one with the smaller bound when both are < or
\* <=; the existing one when the kinds differ or one has no inequality.
C25_StricterChoice == [][StricterChoiceStep]_vars

C25_Witness ==
    /\ comb_pc = "returned"
    /\ Len(unified_constraints) = 1
    /\ Len(static_constraints) = 1
    /\ Len(dynamic_invariants) = 2
    /\ static_constraints[1].expression = <<Atom("amount", "<", 100)>>
    /\ dynamic_invariants[1].expression = <<Atom("amount", "==", 50)>>
    /\ dynamic_invariants[2].expression = <<Atom("amount", "<=", 50)>>
    /\ unified_constraints[1].expression = <<Atom("amount", "<=", 50)>>

(***************************************************************************)
(* Further claims about the test executor                                  *)
(***************************************************************************)
\* the entries of script_log that belong to the k-th script of the batch
LogEntriesOf(k) == {i \in 1..Len(script_log) : script_log[i].test = k}

\* C26: every script of the batch contributes at least one outcome to the
\* returned suite; a script without usable signal contributes an unknown
\* outcome.
C26_EveryScriptHasOutcome ==
    exec_pc = "returned" =>
        \A k \in 1..Len(verified_tests) :
            \E i \in LogEntriesOf(k) :
                /\ script_log[i].count >= 1
                /\ script_log[i].event \in {"unsupported", "timeout", "error",
                                            "no_runtime", "bad_report"}
                   => outcomes[script_log[i].first].status = "unknown"

\* the same for the scripts that were launched and wrote no empty report
C26_LaunchedScriptsHaveOutcome ==
    exec_pc = "returned" =>
        \A i \in 1..Len(script_log) :
            (script_log[i].event # "unsupported" /\ script_log[i].report # <<>>)
            => script_log[i].count >= 1

\* the number of scripts whose test process has been launched so far
ScriptsLaunched ==
    Cardinality({k \in 1..Len(verified_tests) :
                    \/ /\ k < test_idx
                       /\ \E i \in LogEntriesOf(k) :
                             script_log[i].event \notin {"unsupported",
                                                         "no_runtime"}
                    \/ /\ k = test_idx
                       /\ exec_pc \in {"python_child", "groovy_child"}})

ReturnedUpdates ==
    {k \in 1..Len(history) :
        IsCallOf(k, "process_results") /\ history[k].result = "value"}

\* the rows of prompt_templates when the k-th call returned
TemplatesAt(k) == history[k].after[2]

ReturnsDefaultOnly(k) ==
    /\ Len(history[k].value.refined_prompts) = 1
    /\ history[k].value.refined_prompts[1].name = "default_constraint_template"

\* C27: process_results returns a non-empty list of prompt templates: the
\* stored templates when there is one, otherwise exactly one default
\* template.
C27_PromptsNeverEmpty ==
    \A k \in ReturnedUpdates :
        /\ history[k].value.refined_prompts # <<>>
        /\ IF TemplatesAt(k) # <<>>
           THEN history[k].value.refined_prompts = TemplatesAt(k)
           ELSE ReturnsDefaultOnly(k)

C27_Witness ==
    \E i, j \in ReturnedUpdates :
        /\ i < j
        /\ TemplatesAt(i) = <<>>
        /\ ReturnsDefaultOnly(i)
        /\ TemplatesAt(j) # <<>>
        /\ history[j].value.refined_prompts = TemplatesAt(j)

====
